---------------------------- MODULE Spec2Model ----------------------------
(***************************************************************************)
(* State-machine model of the ROS2 recording dashboard:                    *)
(*   - the upload server (src/upload_server.py),                           *)
(*   - the asynchronous execution layer (src/core/async_worker.py),        *)
(*   - the smart recording triggers (src/core/recording_triggers.py),      *)
(*   - the recording control panel and shell (src/gui/...),                *)
(*   - the recording isolation harness (src/test_recording_isolation.py).  *)
(*   - the metrics engine (src/core/metrics_collector.py),                 *)
(*   - the adaptive performance modes (src/core/performance_modes.py),     *)
(*   - network robot discovery (src/core/network_discovery.py),            *)
(*   - the ML exporter (src/core/ml_exporter.py).                          *)
(* Each subsystem has its own variables, initial condition, actions and     *)
(* specification; a specification leaves the other subsystems unchanged.   *)
(***************************************************************************)
EXTENDS Integers, Sequences, FiniteSets, TLC

VARIABLES
    \* ---- upload server (src/upload_server.py)
    upload_sessions,   \* upload id -> session record        (line 29)
    temp_files,        \* upload id -> (chunk index -> data): TEMP_DIR/<id>/chunk_<i>
    completed,         \* filename -> content: files of COMPLETED_DIR
    sidecars,          \* filename -> record: <file>.metadata.json of COMPLETED_DIR
    next_upload_id,    \* the next fresh uuid
    up_req,            \* the last request: endpoint, upload id, checksum
    up_count,          \* requests handled so far (exploration is cut at MaxRequests)
    up_resp            \* the response of the last request: status code, error

upVars == <<upload_sessions, temp_files, completed, sidecars, next_upload_id,
            up_req, up_resp, up_count>>

VARIABLES
    \* ---- recording control (src/gui/recording_control.py, src/gui/main_window.py)
    rc_is_recording,     \* RecordingControlWidget.is_recording
    start_btn,           \* start_btn.isEnabled()
    stop_btn,            \* stop_btn.isEnabled()
    dir_input,           \* text of the output directory field
    dir_input_enabled,   \* dir_input.isEnabled()
    current_bag_metadata,\* robot metadata of the current bag, or NoRobot
    mw_is_recording,     \* MainWindow.is_recording
    selected_topics,     \* TopicMonitor.selected_topics is non-empty
    recording_process,   \* the Facade's handle of the record process, or NoProcess
    rec_procs,           \* process ids of the record processes that are running
    next_pid,            \* the process id the next spawn gets
    rec_req,             \* the last start/stop request and its outcome
    status_label         \* the panel's status line

panelVars == <<rc_is_recording, start_btn, stop_btn, dir_input, dir_input_enabled,
               current_bag_metadata, mw_is_recording, selected_topics, rec_req,
               status_label>>

facadeVars == <<recording_process, rec_procs, next_pid>>

recVars == <<panelVars, facadeVars>>

VARIABLES
    \* ---- recording isolation harness (src/test_recording_isolation.py)
    iso_pc,          \* the harness's position in test_recording_isolation
    iso_clock,       \* seconds since the harness started
    iso_wake,        \* the time the current time.sleep returns
    health_checks,   \* the Facade's health-check counter of the session
    next_check,      \* the time of the recording monitor's next health check
    health_before,   \* the reading taken before the freeze
    health_after,    \* the reading taken after the freeze
    iso_result,      \* what test_recording_isolation returned
    iso_crashed      \* the record process exited on its own

isoVars == <<iso_pc, iso_clock, iso_wake, health_checks, next_check,
             health_before, health_after, iso_result, iso_crashed>>

VARIABLES
    \* ---- asynchronous execution layer (src/core/async_worker.py)
    as_clock,          \* time.time(), in seconds
    cache,             \* AsyncROS2Manager._cache: key -> result
    cache_timestamps,  \* AsyncROS2Manager._cache_timestamps: key -> time
    workers,           \* call number -> the ROS2Worker it started, until delivered
    ui_queue,          \* signals emitted by workers, waiting for the UI thread
    last_issued,       \* key -> time of the latest get_<key>_async call, or Never
    as_calls,          \* number of get_<key>_async calls so far
    as_last,           \* the latest get_<key>_async call: its key, hit or miss
    cb_fired           \* the latest signal handled by the UI thread

asVars == <<as_clock, cache, cache_timestamps, workers, ui_queue,
            last_issued, as_calls, as_last, cb_fired>>

VARIABLES
    \* ---- smart recording triggers (src/core/recording_triggers.py)
    start_triggers,      \* SmartRecordingManager.start_triggers, a list of triggers
    stop_triggers,       \* SmartRecordingManager.stop_triggers
    enabled,             \* trigger -> RecordingTrigger.enabled
    activated,           \* trigger -> RecordingTrigger.activated
    monitoring_enabled,  \* SmartRecordingManager.monitoring_enabled
    recording_active,    \* SmartRecordingManager.recording_active
    pre_buffer_enabled,  \* SmartRecordingManager.pre_buffer_enabled
    pre_buffer_data,     \* the pre-buffer deque: its snapshots, oldest first
    last_cycle           \* what the latest check_triggers call did

trVars == <<start_triggers, stop_triggers, enabled, activated, monitoring_enabled,
            recording_active, pre_buffer_enabled, pre_buffer_data, last_cycle>>

VARIABLES
    \* ---- a MessageRateTrigger fed directly (src/core/recording_triggers.py)
    mr_trigger,        \* the trigger object: enabled, activated, threshold
    mr_fed,            \* the rates fed so far, each with the signal its check emitted
    mr_plain           \* TRUE until the trigger is disabled or reset

mrVars == <<mr_trigger, mr_fed, mr_plain>>

VARIABLES
    \* ---- metrics engine (src/core/metrics_collector.py) and the shell's metrics tick
    mc_now,               \* the reading of time.time(), in seconds
    metrics_collector,    \* the MetricsCollector object
    last_metrics_update,  \* MainWindow._last_metrics_update
    mc_resets,            \* reset() calls so far
    mc_hist               \* the update() calls since the last reset(): time, directory seen

mcVars == <<mc_now, metrics_collector, last_metrics_update, mc_resets, mc_hist>>

VARIABLES
    \* ---- adaptive performance subsystem (src/core/performance_modes.py)
    performance_manager,  \* the PerformanceModeManager object
    pm_auto,              \* the last _auto_detect_mode(): system_info read, mode returned
    pm_got                \* the last get_mode_settings(mode): mode asked for, table returned

pmVars == <<performance_manager, pm_auto, pm_got>>

VARIABLES
    \* ---- network robot discovery (src/core/network_discovery.py)
    network_discovery,    \* the NetworkRobotDiscovery object: current_domain
    environ,              \* os.environ['ROS_DOMAIN_ID']
    nd_last,              \* the last domain operation: set_domain or scan_domains
    discovered_robots,    \* hostname -> the robot's topics, in discovery order
    nd_sensors            \* the last get_robot_sensors(hostname): hostname, result

ndVars == <<network_discovery, environ, nd_last, discovered_robots, nd_sensors>>

VARIABLES
    \* ---- ML exporter (src/core/ml_exporter.py)
    ml_now,               \* datetime.now(), in ticks of a fraction of a second
    ml_datasets,          \* package directory -> its contents, under out_root
    ml_calls              \* the package_bag_for_ml calls so far: path, outcome

mlVars == <<ml_now, ml_datasets, ml_calls>>

VARIABLES
    \* ---- the shell's adaptive settings (src/gui/main_window.py)
    perf_settings,        \* MainWindow.perf_settings: the table in force
    async_ros2,           \* the AsyncROS2Manager's attributes, pool and window
    ros2_timer,           \* interval of the ROS2-info timer, ms
    metrics_timer,        \* interval of the metrics timer, ms
    history_timer,        \* interval of the history timer, ms
    live_charts,          \* LiveChartsWidget: update_interval, buffer_size, auto_pause
    sh_applied,           \* the mode of the last on_performance_mode_changed, if any
    sh_changes,           \* runs of on_performance_mode_changed so far
    last_ros2_update,     \* MainWindow._last_ros2_update
    ros2_poll,            \* the last poll past the debounce: what it saw and submitted
    poll_tasks            \* the workers started by update_ros2_info_async

pollVars == <<last_ros2_update, ros2_poll, poll_tasks>>

\* the shell's settings that a recording leaves alone
shKept == <<perf_settings, async_ros2, ros2_timer, history_timer, live_charts,
            sh_applied, sh_changes, pollVars>>

shVars == <<shKept, metrics_timer>>

VARIABLES
    \* ---- the panel's rate table (src/gui/recording_control.py)
    selected_topics_data, \* topic -> rate, last_rate, stalled, stalled_count
    rt_seen,              \* topic -> since it is tracked: a positive rate seen, an absence seen
    rt_last,              \* the live list the last update_topic_rates read, name -> hz
    rt_refreshes          \* update_topic_rates calls that read the live list

rtVars == <<selected_topics_data, rt_seen, rt_last, rt_refreshes>>

VARIABLES
    \* ---- auto-upload of finished recordings (src/gui/main_window.py,
    \*      src/gui/network_upload.py)
    network_manager,      \* MainWindow.network_manager is not None
    auto_upload_check,    \* NetworkUploadWidget.auto_upload_check.isChecked()
    bag_on_disk,          \* the Facade reports a current bag path and it exists
    upload_queue,         \* the captures handed to the manager's add_upload, in order
    nu_last               \* the last on_recording_stopped: what it found, stops so far

nuKept == <<network_manager, auto_upload_check, bag_on_disk>>

VARIABLES
    \* ---- the window's close (src/gui/main_window.py closeEvent)
    window,               \* "open", "draining" (inside shutdown()) or "closed"
    nm_stopped,           \* network_manager.stop() has been called
    cl_last               \* the last closeEvent: what it found and was answered

clVars == <<window, nm_stopped, cl_last>>

\* what on_recording_stopped writes of the upload panel
stopVars == <<upload_queue, nu_last>>

VARIABLES
    \* ---- the cache lock of the asynchronous layer (src/core/async_worker.py)
    as_lock,              \* who holds AsyncROS2Manager._lock: "free" or "ui"
    ui_pc                 \* what the UI thread runs: "idle", a callback, "deadlock"

lkVars == <<as_lock, ui_pc>>

VARIABLES
    \* ---- the pre-buffer of the trigger manager (src/core/recording_triggers.py)
    pb_cycles,            \* check_triggers calls made so far
    pb_log                \* the snapshots due since the buffer was last cleared

pbVars == <<pb_cycles, pb_log>>

VARIABLES
    \* ---- the topic echo console (src/gui/topic_echo.py)
    is_echoing,           \* TopicEchoWidget.is_echoing
    echo_process,         \* TopicEchoWidget.echo_process: a pid, or NoProcess
    echo_reader,          \* TopicEchoWidget.echo_reader: a reader, or NoProcess
    echo_procs,           \* pid -> "running" or "ended"
    echo_readers,         \* reader -> the EchoReader object and its thread
    echo_events,          \* the signals queued for the UI thread, oldest first
    echo_output,          \* the console: per reader, what of its messages was appended
    echo_last             \* the last stop_echo: who called it and what it did

echoVars == <<is_echoing, echo_process, echo_reader, echo_procs, echo_readers,
              echo_events, echo_output, echo_last>>

VARIABLES
    \* ---- bag playback (src/gui/bag_playback.py)
    is_playing,           \* BagPlaybackWidget.is_playing
    playback_process,     \* BagPlaybackWidget.playback_process: a pid, or NoProcess
    pl_last               \* the last stop_playback: what it did to the child

plVars == <<is_playing, playback_process, pl_last>>

VARIABLES
    \* ---- the isolation harness's verdict (src/test_recording_isolation.py)
    hv_run                \* the last run of the harness: what it observed, its exit status

hvVars == <<hv_run>>

VARIABLES
    \* ---- one trigger object of any kind (src/core/recording_triggers.py)
    tk_now,               \* datetime.now(), in seconds
    tk_self,              \* the trigger object: its kind and attributes
    tk_hist               \* the check() calls made on it since it was constructed

tkVars == <<tk_now, tk_self, tk_hist>>

\* the variables of the later sections
lateVars == <<lkVars, tkVars, pbVars, echoVars, plVars, hvVars>>

\* everything but the asynchronous layer and the later sections
oldVars == <<upVars, recVars, isoVars, trVars, mrVars, mcVars, pmVars, ndVars, mlVars,
             shVars, rtVars, nuKept, clVars, stopVars>>

\* the panels that the subsystems above never touch
restVars == <<rtVars, nuKept, clVars, lateVars>>

\* the subsystems outside the five above
extVars == <<mrVars, mcVars, pmVars, ndVars, mlVars, shVars, restVars, stopVars>>

coreVars == <<upVars, recVars, isoVars, asVars, trVars>>

vars == <<upVars, recVars, isoVars, asVars, trVars, extVars>>

----------------------------------------------------------------------------
(* Partial maps as functions over an explicit domain. *)
Put(f, k, v) == [x \in (DOMAIN f) \cup {k} |-> IF x = k THEN v ELSE f[x]]

Del(f, k) == [x \in (DOMAIN f) \ {k} |-> f[x]]

EmptyMap == [x \in {} |-> 0]

----------------------------------------------------------------------------
(***************************************************************************)
(* Upload server                                                           *)
(***************************************************************************)
MaxRequests == 5

MaxSessions == 2

MaxChunks == 2

HashMod == 2

UploadIds == 1..MaxSessions

Filenames == {"a.bag", "b.bag"}

\* chunk indices a client can send; MaxChunks is outside 0..N-1 for every N
ChunkIndices == 0..MaxChunks

\* the bytes a client sends as chunk chunk_index of the file of its session
ChunkOf(upload_id, chunk_index) == <<upload_id * 10 + chunk_index>>

\* a digest is a non-empty string; the empty string stands for an absent
\* (None) or empty checksum, both falsy at line 152
NoChecksum == <<>>

Checksums == {NoChecksum} \cup {<<h>> : h \in 0..(HashMod - 1)}

RECURSIVE HashBytes(_, _)
HashBytes(content, h) ==
    IF content = <<>> THEN h
    ELSE HashBytes(Tail(content), (h * 2 + Head(content)) % HashMod)

\* calculate_checksum: a digest of the file's bytes, read front to back
calculate_checksum(content) == <<HashBytes(content, Len(content) % HashMod)>>

Req(op, upload_id, checksum) == [op |-> op, id |-> upload_id, checksum |-> checksum]

Resp(code, err) == [code |-> code, err |-> err]

UpInit ==
    /\ upload_sessions = EmptyMap
    /\ temp_files = EmptyMap
    /\ completed = EmptyMap
    /\ sidecars = EmptyMap
    /\ next_upload_id = 1
    /\ up_req = Req("none", 0, NoChecksum)
    /\ up_resp = Resp(0, "")
    /\ up_count = 0

\* POST /upload/init
initialize_upload(filename, chunks) ==
    /\ next_upload_id <= MaxSessions
    /\ LET upload_id == next_upload_id IN
         /\ upload_sessions' = Put(upload_sessions, upload_id,
                [filename |-> filename, chunks |-> chunks, received_chunks |-> {}])
         /\ temp_files' = Put(temp_files, upload_id, EmptyMap)
         /\ next_upload_id' = next_upload_id + 1
         /\ up_req' = Req("init", upload_id, NoChecksum)
         /\ up_resp' = Resp(200, "")
    /\ UNCHANGED <<completed, sidecars>>

\* progress = len(received_chunks) / chunk_total * 100 raises on chunk_total = 0
ProgressRaises(chunk_total) == chunk_total = 0

\* POST /upload/chunk
upload_chunk(upload_id, chunk_index, chunk_total, has_chunk, data) ==
    /\ up_req' = Req("chunk", upload_id, NoChecksum)
    /\ IF upload_id \notin DOMAIN upload_sessions
       THEN /\ up_resp' = Resp(400, "Invalid upload ID")
            /\ UNCHANGED <<upload_sessions, temp_files>>
       ELSE IF ~has_chunk
       THEN /\ up_resp' = Resp(400, "No chunk data")
            /\ UNCHANGED <<upload_sessions, temp_files>>
       ELSE /\ temp_files' = [temp_files EXCEPT ![upload_id] = Put(@, chunk_index, data)]
            /\ upload_sessions' = [upload_sessions EXCEPT
                    ![upload_id].received_chunks = @ \cup {chunk_index}]
            /\ up_resp' = IF ProgressRaises(chunk_total)
                          THEN Resp(500, "exception")
                          ELSE Resp(200, "")
    /\ UNCHANGED <<completed, sidecars, next_upload_id>>

MissingChunksOnlyWhenMore(session) ==
    Cardinality(session.received_chunks) > session.chunks

\* line 134: len(session['received_chunks']) != session['chunks']
MissingChunks(session) == Cardinality(session.received_chunks) # session.chunks

\* lines 143-147: the chunks 0..n-1 that exist before the first missing one
RECURSIVE ReadableChunks(_, _, _)
ReadableChunks(files, i, n) ==
    IF i >= n \/ i \notin DOMAIN files THEN i
    ELSE ReadableChunks(files, i + 1, n)

RECURSIVE CombineChunksReversed(_, _, _)
CombineChunksReversed(files, i, upto) ==
    IF i >= upto THEN <<>>
    ELSE CombineChunksReversed(files, i + 1, upto) \o files[i]

\* lines 143-147: chunk_0 .. chunk_{upto-1} written one after the other
RECURSIVE CombineChunks(_, _, _)
CombineChunks(files, i, upto) ==
    IF i >= upto THEN <<>>
    ELSE files[i] \o CombineChunks(files, i + 1, upto)

ChecksumNeverCompared(checksum, calculated_checksum) == FALSE

ChecksumCompareInverted(checksum, calculated_checksum) ==
    checksum # NoChecksum /\ calculated_checksum = checksum

\* line 152: if checksum and calculated_checksum != checksum
ChecksumMismatch(checksum, calculated_checksum) ==
    checksum # NoChecksum /\ calculated_checksum # checksum

\* POST /upload/finalize
finalize_upload(upload_id, checksum) ==
    /\ UNCHANGED next_upload_id
    /\ up_req' = Req("finalize", upload_id, checksum)
    /\ IF upload_id \notin DOMAIN upload_sessions
       THEN /\ up_resp' = Resp(400, "Invalid upload ID")
            /\ UNCHANGED <<upload_sessions, temp_files, completed, sidecars>>
       ELSE
       LET session == upload_sessions[upload_id]
           files == temp_files[upload_id]
           n == session.chunks
           readable == ReadableChunks(files, 0, n)
           output == CombineChunks(files, 0, readable)
           calculated_checksum == calculate_checksum(output)
           leftover == (DOMAIN files) \ (0..(n - 1))
       IN
       IF MissingChunks(session)
       THEN /\ up_resp' = Resp(400, "Missing chunks")
            /\ UNCHANGED <<upload_sessions, temp_files, completed, sidecars>>
       ELSE IF readable < n
       THEN \* open(chunk_path) raises after the output file was created
            /\ completed' = Put(completed, session.filename, output)
            /\ up_resp' = Resp(500, "exception")
            /\ UNCHANGED <<upload_sessions, temp_files, sidecars>>
       ELSE IF ChecksumMismatch(checksum, calculated_checksum)
       THEN \* os.remove(output_path)
            /\ completed' = Del(completed, session.filename)
            /\ up_resp' = Resp(400, "Checksum mismatch")
            /\ UNCHANGED <<upload_sessions, temp_files, sidecars>>
       ELSE IF leftover # {}
       THEN \* os.rmdir raises on a directory that is not empty
            /\ completed' = Put(completed, session.filename, output)
            /\ temp_files' = [temp_files EXCEPT ![upload_id] =
                                [i \in leftover |-> files[i]]]
            /\ up_resp' = Resp(500, "exception")
            /\ UNCHANGED <<upload_sessions, sidecars>>
       ELSE /\ completed' = Put(completed, session.filename, output)
            /\ temp_files' = Del(temp_files, upload_id)
            /\ sidecars' = Put(sidecars, session.filename,
                    [filename |-> session.filename, checksum |-> calculated_checksum])
            /\ upload_sessions' = Del(upload_sessions, upload_id)
            /\ up_resp' = Resp(200, "")

\* GET /upload/status/<upload_id>
upload_status(upload_id) ==
    /\ up_req' = Req("status", upload_id, NoChecksum)
    /\ up_resp' = IF upload_id \notin DOMAIN upload_sessions
                  THEN Resp(404, "Invalid upload ID")
                  ELSE Resp(200, "")
    /\ UNCHANGED <<upload_sessions, temp_files, completed, sidecars, next_upload_id>>

\* one more request is handled
UpBudget ==
    /\ up_count < MaxRequests
    /\ up_count' = up_count + 1
    /\ UNCHANGED <<recVars, isoVars, asVars, trVars, extVars>>

\* one more request of a client that uploads a file and then uploads it again
ReBudget ==
    /\ up_count < MaxRequests + 1
    /\ up_count' = up_count + 1
    /\ UNCHANGED <<recVars, isoVars, asVars, trVars, extVars>>

\* clients that upload one-chunk files under one name, session after session
ReNext ==
    \/ ReBudget /\ initialize_upload("a.bag", 1)
    \/ /\ ReBudget
       /\ \E upload_id \in UploadIds, chunk_index \in 0..1 :
             upload_chunk(upload_id, chunk_index, 1, TRUE,
                          ChunkOf(upload_id, chunk_index))
    \/ /\ ReBudget
       /\ \E upload_id \in UploadIds, checksum \in Checksums :
             finalize_upload(upload_id, checksum)

UpNext ==
    \/ /\ UpBudget
       /\ \E filename \in Filenames, chunks \in 1..MaxChunks :
             initialize_upload(filename, chunks)
    \/ /\ UpBudget
       /\ \E upload_id \in UploadIds, chunk_index \in ChunkIndices :
             upload_chunk(upload_id, chunk_index, MaxChunks, TRUE,
                          ChunkOf(upload_id, chunk_index))
    \/ /\ UpBudget
       /\ \E upload_id \in UploadIds :
             upload_chunk(upload_id, 0, 0, TRUE, ChunkOf(upload_id, 0))
    \/ /\ UpBudget
       /\ \E upload_id \in UploadIds :
             upload_chunk(upload_id, 0, MaxChunks, FALSE, <<>>)
    \/ /\ UpBudget
       /\ \E upload_id \in UploadIds, checksum \in Checksums :
             finalize_upload(upload_id, checksum)
    \/ /\ UpBudget
       /\ \E upload_id \in UploadIds : upload_status(upload_id)

----------------------------------------------------------------------------
(***************************************************************************)
(* Metrics engine (MetricsCollector).  time.time() is a clock reading in    *)
(* whole seconds; the floats the collector computes are exact fractions     *)
(* [n, d] in lowest terms (the values the accounting is about, such as      *)
(* 10/5 and 10*1024, are exact in binary floating point as well).           *)
(***************************************************************************)
MaxClock == 7

MaxResets == 1

MaxUpdates == 2

\* bytes per MB (current_size / (1024 * 1024)) and KB per MB (current_size_mb * 1024)
BytesPerMB == 1024 * 1024

KBPerMB == 1024

avg_msg_size_kb == 1

system_metrics_cache_timeout == 1

\* None, for a time: the code tests times for truth, so None and 0 act alike
NoTime == 0

Abs(n) == IF n < 0 THEN 0 - n ELSE n

RECURSIVE Gcd(_, _)
Gcd(a, b) == IF b = 0 THEN a ELSE Gcd(b, a % b)

\* the fraction n / d (d > 0) in lowest terms
Rat(n, d) ==
    LET g == Gcd(Abs(n), d)
    IN  [n |-> n \div g, d |-> d \div g]

RatZero == Rat(0, 1)

RatSub(a, b) == Rat(a.n * b.d - b.n * a.d, a.d * b.d)

RatMulInt(a, k) == Rat(a.n * k, a.d)

RatDivInt(a, k) == Rat(a.n, a.d * k)

RatLess(a, b) == a.n * b.d < b.n * a.d

\* int(x): truncation toward zero
Trunc(a) == IF a.n >= 0 THEN a.n \div a.d ELSE 0 - ((0 - a.n) \div a.d)

\* the metrics dictionary with every field zero (lines 30-41 and 50-61)
ZeroMetrics ==
    [duration |-> 0, size_mb |-> RatZero, write_speed_mb_s |-> RatZero,
     message_count |-> 0, topic_count |-> 0, message_rate |-> RatZero,
     disk_usage_percent |-> 0, cpu_percent |-> 0, memory_percent |-> 0,
     disk_write_speed |-> 0]

NoCache == [cpu_percent |-> -1, memory_percent |-> -1, disk_write_speed |-> -1]

\* what the capture directory holds when update() walks it: total bytes
DirSizes == {0, 1536, 10 * BytesPerMB}

DirStates ==
    {[exists |-> FALSE, size |-> 0]} \cup {[exists |-> TRUE, size |-> b] : b \in DirSizes}

\* what the host and the Facade answer during one update: the live topic
\* count, the disk usage, psutil's readings, or probes that raise
Hosts ==
    { [ok |-> TRUE, topics |-> 3, disk_usage |-> 40, cpu |-> 25, mem |-> 50, disk_write |-> 2],
      [ok |-> FALSE, topics |-> 0, disk_usage |-> 0, cpu |-> 0, mem |-> 0, disk_write |-> 0] }

\* MetricsCollector.__init__
McNew ==
    [start_time |-> NoTime, last_update_time |-> NoTime, last_size |-> RatZero,
     last_disk_io |-> FALSE, cache |-> NoCache, cache_time |-> 0,
     last_disk_check |-> 0, last_topic_check |-> 0, metrics |-> ZeroMetrics,
     system_metrics_cache_timeout |-> Rat(system_metrics_cache_timeout, 1)]

McInit ==
    /\ mc_now = 1
    /\ metrics_collector = McNew
    /\ last_metrics_update = 0
    /\ mc_resets = 0
    /\ mc_hist = <<>>

\* reset() that keeps the metrics of the session before
ResetKeepsMetrics(self, now) ==
    [self EXCEPT !.start_time = now, !.last_update_time = now,
                 !.last_size = RatZero, !.last_disk_io = FALSE]

\* MetricsCollector.reset()
reset(self, now) ==
    [self EXCEPT !.start_time = now, !.last_update_time = now,
                 !.last_size = RatZero, !.last_disk_io = FALSE,
                 !.metrics = ZeroMetrics]

\* MetricsCollector.update_system_metrics()
update_system_metrics(self, now, host) ==
    IF self.cache # NoCache
       /\ RatLess(Rat(now - self.cache_time, 1), self.system_metrics_cache_timeout)
    THEN [self EXCEPT !.metrics.cpu_percent = self.cache.cpu_percent,
                      !.metrics.memory_percent = self.cache.memory_percent,
                      !.metrics.disk_write_speed = self.cache.disk_write_speed]
    ELSE LET cpu_percent == IF host.ok THEN host.cpu ELSE 0
             memory_percent == IF host.ok THEN host.mem ELSE 0
             due == RatLess(RatMulInt(self.system_metrics_cache_timeout, 2),
                            Rat(now - self.last_disk_check, 1))
             disk_write_speed ==
                 IF due
                 THEN IF host.ok /\ self.last_disk_io /\ self.last_update_time # NoTime
                         /\ now - self.last_update_time > 0
                      THEN host.disk_write
                      ELSE 0
                 ELSE self.metrics.disk_write_speed
             sampled == [cpu_percent |-> cpu_percent, memory_percent |-> memory_percent,
                         disk_write_speed |-> disk_write_speed]
         IN  [self EXCEPT !.last_disk_io = IF due /\ host.ok THEN TRUE ELSE @,
                          !.last_disk_check = IF due /\ host.ok THEN now ELSE @,
                          !.metrics.cpu_percent = cpu_percent,
                          !.metrics.memory_percent = memory_percent,
                          !.metrics.disk_write_speed = disk_write_speed,
                          !.cache = sampled,
                          !.cache_time = now]

\* the write speed is the size delta, not divided by the time delta
SpeedIsSizeDelta(size_delta_mb, time_delta) == size_delta_mb

\* size_delta_mb / time_delta (line 97)
WriteSpeed(size_delta_mb, time_delta) == RatDivInt(size_delta_mb, time_delta)

\* int(current_size_mb * 1024 / avg_msg_size_kb) (line 116)
MessageCount(current_size_mb) ==
    Trunc(RatDivInt(RatMulInt(current_size_mb, KBPerMB), avg_msg_size_kb))

\* MetricsCollector.update(ros2_manager) at clock reading now, with the
\* capture directory in state dir and the host answering as host
update(self, now, dir, host) ==
    LET duration == IF self.start_time # NoTime THEN now - self.start_time
                    ELSE self.metrics.duration
        current_size_mb == Rat(dir.size, BytesPerMB)
        time_delta == now - self.last_update_time
        speed == IF self.last_update_time # NoTime
                    /\ self.last_update_time # self.start_time /\ time_delta > 0
                 THEN WriteSpeed(RatSub(current_size_mb, self.last_size), time_delta)
                 ELSE self.metrics.write_speed_mb_s
        message_count == MessageCount(current_size_mb)
        s1 == [self EXCEPT !.metrics.duration = duration]
        s2 == IF dir.exists
              THEN [s1 EXCEPT !.metrics.size_mb = current_size_mb,
                              !.metrics.write_speed_mb_s = speed,
                              !.last_size = current_size_mb,
                              !.last_update_time = now,
                              !.metrics.topic_count = IF host.ok THEN host.topics ELSE @,
                              !.metrics.message_count = message_count,
                              !.metrics.message_rate =
                                  IF duration > 0 THEN Rat(message_count, duration) ELSE @]
              ELSE s1
        s3 == [s2 EXCEPT !.metrics.disk_usage_percent =
                             IF host.ok THEN host.disk_usage ELSE @]
    IN  update_system_metrics(s3, now, host)

\* a direct call of metrics_collector.reset()
McReset ==
    /\ mc_resets < MaxResets
    /\ metrics_collector' = reset(metrics_collector, mc_now)
    /\ mc_resets' = mc_resets + 1
    /\ mc_hist' = <<>>
    /\ UNCHANGED <<mc_now, last_metrics_update>>

\* a direct call of metrics_collector.update(ros2_manager)
McUpdate(dir, host) ==
    /\ Len(mc_hist) < MaxUpdates
    /\ metrics_collector' = update(metrics_collector, mc_now, dir, host)
    /\ mc_hist' = Append(mc_hist, [time |-> mc_now, dir |-> dir])
    /\ UNCHANGED <<mc_now, last_metrics_update, mc_resets>>

\* time passes
McTick ==
    /\ mc_now < MaxClock
    /\ mc_now' = mc_now + 1
    /\ UNCHANGED <<metrics_collector, last_metrics_update, mc_resets, mc_hist>>

McOnly == UNCHANGED <<coreVars, mrVars, pmVars, ndVars, mlVars, shVars, restVars, stopVars>>

McNext ==
    \/ McOnly /\ McReset
    \/ McOnly /\ \E dir \in DirStates, host \in Hosts : McUpdate(dir, host)
    \/ McOnly /\ McTick

----------------------------------------------------------------------------
(***************************************************************************)
(* Adaptive performance subsystem (PerformanceModeManager).  memory_gb is  *)
(* round(total / 1024**3, 1): a number of tenths of a GB.                  *)
(***************************************************************************)
HIGH == "high"

BALANCED == "balanced"

LOW == "low"

CUSTOM == "custom"

PerformanceMode == {HIGH, BALANCED, LOW, CUSTOM}

\* mode = None
NoMode == "none"

\* system_info['memory_gb'] in tenths of a GB, system_info['cpu_count']
MemoryTenths == {40, 79, 80, 120, 159, 160, 320}

CpuCounts == {2, 3, 4, 6, 7, 8, 16}

SystemInfos == [memory_gb : MemoryTenths, cpu_count : CpuCounts]

\* HIGH whenever either resource is high-end
AutoDetectEitherHigh(system_info) ==
    IF system_info.memory_gb >= 160 \/ system_info.cpu_count >= 8 THEN HIGH
    ELSE IF system_info.memory_gb < 80 \/ system_info.cpu_count < 4 THEN LOW
    ELSE BALANCED

\* PerformanceModeManager._auto_detect_mode()
_auto_detect_mode(system_info) ==
    IF system_info.memory_gb >= 160 /\ system_info.cpu_count >= 8 THEN HIGH
    ELSE IF system_info.memory_gb < 80 \/ system_info.cpu_count < 4 THEN LOW
    ELSE BALANCED

\* the HIGH table with the cache window of BALANCED
HighSettingsStale ==
    [ros2_update_interval |-> 1000, metrics_update_interval |-> 250,
     history_update_interval |-> 5000, chart_update_interval |-> 500,
     max_threads |-> 6, max_concurrent_threads |-> 4,
     cache_timeout |-> 3, system_metrics_cache |-> Rat(1, 2),
     topic_check_interval |-> 1, chart_buffer_size |-> 120,
     chart_auto_pause |-> FALSE, history_max_entries |-> 1000,
     enable_profiler |-> TRUE, enable_advanced_features |-> TRUE,
     lazy_load_widgets |-> FALSE, process_priority |-> "normal"]

\* the table returned for PerformanceMode.HIGH (lines 108-136)
HighSettings ==
    [ros2_update_interval |-> 1000, metrics_update_interval |-> 250,
     history_update_interval |-> 5000, chart_update_interval |-> 500,
     max_threads |-> 6, max_concurrent_threads |-> 4,
     cache_timeout |-> 1, system_metrics_cache |-> Rat(1, 2),
     topic_check_interval |-> 1, chart_buffer_size |-> 120,
     chart_auto_pause |-> FALSE, history_max_entries |-> 1000,
     enable_profiler |-> TRUE, enable_advanced_features |-> TRUE,
     lazy_load_widgets |-> FALSE, process_priority |-> "normal"]

\* the table returned for PerformanceMode.BALANCED (lines 140-168)
BalancedSettings ==
    [ros2_update_interval |-> 3000, metrics_update_interval |-> 500,
     history_update_interval |-> 15000, chart_update_interval |-> 1000,
     max_threads |-> 3, max_concurrent_threads |-> 2,
     cache_timeout |-> 3, system_metrics_cache |-> Rat(1, 1),
     topic_check_interval |-> 3, chart_buffer_size |-> 60,
     chart_auto_pause |-> TRUE, history_max_entries |-> 500,
     enable_profiler |-> TRUE, enable_advanced_features |-> TRUE,
     lazy_load_widgets |-> TRUE, process_priority |-> "normal"]

\* the table returned otherwise (lines 172-200)
LowSettings ==
    [ros2_update_interval |-> 5000, metrics_update_interval |-> 1000,
     history_update_interval |-> 30000, chart_update_interval |-> 2000,
     max_threads |-> 2, max_concurrent_threads |-> 1,
     cache_timeout |-> 5, system_metrics_cache |-> Rat(2, 1),
     topic_check_interval |-> 5, chart_buffer_size |-> 30,
     chart_auto_pause |-> TRUE, history_max_entries |-> 200,
     enable_profiler |-> FALSE, enable_advanced_features |-> TRUE,
     lazy_load_widgets |-> TRUE, process_priority |-> "below_normal"]

\* self._custom_settings = None, and the empty table: both false in a test
NoSettings == [k \in {} |-> 0]

\* tables a caller may pass to set_custom_settings: a full one, one with a
\* single key, and the empty one
CustomTables ==
    { [HighSettings EXCEPT !.max_threads = 4, !.cache_timeout = 2],
      [max_threads |-> 4],
      NoSettings }

\* PerformanceModeManager.get_mode_settings(mode)
get_mode_settings(self, mode) ==
    LET m == IF mode = NoMode THEN self.current_mode ELSE mode
    IN  IF m = CUSTOM /\ self.custom_settings # NoSettings
        THEN self.custom_settings
        ELSE IF m = HIGH THEN HighSettings
        ELSE IF m = BALANCED THEN BalancedSettings
        ELSE LowSettings

\* PerformanceModeManager.__init__ on a host with the given specifications
PmNew(system_info) ==
    [system_info |-> system_info, current_mode |-> _auto_detect_mode(system_info),
     custom_settings |-> NoSettings]

\* the host the application is started on: 16 GB and 8 cores
HostInfo == [memory_gb |-> 160, cpu_count |-> 8]

NoQuery == [mode |-> NoMode, table |-> NoSettings]

PmInitOn(system_info) ==
    /\ performance_manager = PmNew(system_info)
    /\ pm_auto = [system_info |-> system_info, mode |-> _auto_detect_mode(system_info)]
    /\ pm_got = NoQuery

PmInit == PmInitOn(HostInfo)

\* PerformanceModeManager.set_mode(mode)
set_mode(mode) ==
    /\ performance_manager' =
           IF mode # performance_manager.current_mode
           THEN [performance_manager EXCEPT !.current_mode = mode]
           ELSE performance_manager
    /\ UNCHANGED <<pm_auto, pm_got>>

\* PerformanceModeManager.set_custom_settings(settings)
set_custom_settings(settings) ==
    /\ performance_manager' = [performance_manager EXCEPT
                                  !.custom_settings = settings,
                                  !.current_mode = CUSTOM]
    /\ UNCHANGED <<pm_auto, pm_got>>

\* PerformanceSettingsDialog.auto_detect_mode(): the host is detected again
auto_detect_mode(system_info) ==
    /\ performance_manager' = [performance_manager EXCEPT !.system_info = system_info]
    /\ pm_auto' = [system_info |-> system_info, mode |-> _auto_detect_mode(system_info)]
    /\ UNCHANGED pm_got

\* a call of get_mode_settings(mode), mode = None for the current mode
PmGetModeSettings(mode) ==
    /\ pm_got' = [mode |-> IF mode = NoMode THEN performance_manager.current_mode
                           ELSE mode,
                  table |-> get_mode_settings(performance_manager, mode)]
    /\ UNCHANGED <<performance_manager, pm_auto>>

PmOnly == UNCHANGED <<coreVars, mrVars, mcVars, ndVars, mlVars, shVars, restVars, stopVars>>

PmNext ==
    \/ PmOnly /\ \E mode \in PerformanceMode : set_mode(mode)
    \/ PmOnly /\ \E settings \in CustomTables : set_custom_settings(settings)
    \/ PmOnly /\ \E system_info \in SystemInfos : auto_detect_mode(system_info)
    \/ PmOnly /\ \E mode \in PerformanceMode \cup {NoMode} : PmGetModeSettings(mode)

----------------------------------------------------------------------------
(***************************************************************************)
(* Network robot discovery (NetworkRobotDiscovery): the ROS domain.        *)
(***************************************************************************)
MaxDomain == 3

DomainIds == 0..MaxDomain

\* ROS_DOMAIN_ID is not set
Unset == "unset"

\* str(domain_id)
Str(domain_id) ==
    CASE domain_id = 0 -> "0" [] domain_id = 1 -> "1" [] domain_id = 2 -> "2"
      [] domain_id = 3 -> "3" [] domain_id = 4 -> "4" [] domain_id = 5 -> "5"
      [] domain_id = 6 -> "6" [] domain_id = 7 -> "7" [] domain_id = 8 -> "8"
      [] domain_id = 9 -> "9"

\* int(os.environ.get('ROS_DOMAIN_ID', '0')), 0 when the text is not a number
_get_current_domain(env) ==
    IF \E d \in 0..9 : env = Str(d)
    THEN CHOOSE d \in 0..9 : env = Str(d)
    ELSE 0

\* 'ros2 node list' in one domain: the command raises or times out, or
\* prints this many node names
ProbeFails == -1

ProbeOutcomes == {ProbeFails, 1}

NoDomainOp == [op |-> "none", start |-> 0, end |-> 0, before |-> 0, results |-> <<>>]

NdInit ==
    /\ environ = Unset
    /\ network_discovery = [current_domain |-> _get_current_domain(Unset)]
    /\ nd_last = NoDomainOp

\* the domain operations leave the robots alone
NdDomainOnly == UNCHANGED <<discovered_robots, nd_sensors>>

\* NetworkRobotDiscovery.set_domain(domain_id) on the object and the environment
set_domain(st, domain_id) ==
    [st EXCEPT !.current_domain = domain_id, !.environ = Str(domain_id)]

\* for domain_id in range(start_domain, end_domain + 1): set_domain, probe,
\* record the node count, 0 when the probe raised
RECURSIVE ScanLoop(_, _, _, _)
ScanLoop(domain_id, end_domain, probe, st) ==
    IF domain_id > end_domain
    THEN st
    ELSE LET s1 == set_domain(st, domain_id)
             node_count == IF probe[domain_id] = ProbeFails THEN 0 ELSE probe[domain_id]
         IN  ScanLoop(domain_id + 1, end_domain, probe,
                      [s1 EXCEPT !.results = Append(@, <<domain_id, node_count>>)])

\* the sweep ends in the last domain probed
StaysInLastDomain(st, original_domain) == st

\* self.set_domain(original_domain) (line 349)
RestoreDomain(st, original_domain) == set_domain(st, original_domain)

\* NetworkRobotDiscovery.scan_domains(start_domain, end_domain)
scan_domains(start_domain, end_domain, probe) ==
    LET original_domain == network_discovery.current_domain
        st0 == [current_domain |-> network_discovery.current_domain,
                environ |-> environ, results |-> <<>>]
        st1 == RestoreDomain(ScanLoop(start_domain, end_domain, probe, st0),
                             original_domain)
    IN  /\ network_discovery' = [network_discovery EXCEPT
                                    !.current_domain = st1.current_domain]
        /\ environ' = st1.environ
        /\ nd_last' = [op |-> "scan_domains", start |-> start_domain,
                       end |-> end_domain, before |-> original_domain,
                       results |-> st1.results]
        /\ NdDomainOnly

\* a call of set_domain(domain_id)
NdSetDomain(domain_id) ==
    LET st == set_domain([current_domain |-> network_discovery.current_domain,
                          environ |-> environ], domain_id)
    IN  /\ network_discovery' = [network_discovery EXCEPT
                                    !.current_domain = st.current_domain]
        /\ environ' = st.environ
        /\ nd_last' = [NoDomainOp EXCEPT !.op = "set_domain"]
        /\ NdDomainOnly

NdOnly == UNCHANGED <<coreVars, mrVars, mcVars, pmVars, mlVars, shVars, restVars, stopVars>>

NdNext ==
    \/ NdOnly /\ \E domain_id \in DomainIds : NdSetDomain(domain_id)
    \/ NdOnly /\ \E start_domain \in DomainIds, end_domain \in DomainIds,
                    probe \in [DomainIds -> ProbeOutcomes] :
                     scan_domains(start_domain, end_domain, probe)

----------------------------------------------------------------------------
(***************************************************************************)
(* Network robot discovery: sensor classification.  A topic name is the    *)
(* sequence of its characters, so that lower-casing and substring tests    *)
(* are computed on the text.                                               *)
(***************************************************************************)
MaxTopics == 4

\* /front/camera/image_raw, /imu/data, /scan, /tf, /TF, /GPS/odom, /cmd_vel
TopicCameraImage == <<"/", "f", "r", "o", "n", "t", "/", "c", "a", "m", "e", "r", "a", "/", "i", "m", "a", "g", "e", "_", "r", "a", "w">>

TopicImu == <<"/", "i", "m", "u", "/", "d", "a", "t", "a">>

TopicScan == <<"/", "s", "c", "a", "n">>

TopicTf == <<"/", "t", "f">>

TopicTfUpper == <<"/", "T", "F">>

TopicGpsOdom == <<"/", "G", "P", "S", "/", "o", "d", "o", "m">>

TopicCmdVel == <<"/", "c", "m", "d", "_", "v", "e", "l">>

TopicPool ==
    {TopicCameraImage, TopicImu, TopicScan, TopicTf, TopicTfUpper, TopicGpsOdom,
     TopicCmdVel}

\* lists of distinct topics a robot may advertise
TopicLists ==
    {l \in UNION {[1..n -> TopicPool] : n \in 0..MaxTopics} :
        \A i, j \in DOMAIN l : i # j => l[i] # l[j]}

Hostnames == {"robot1", "robot2"}

\* str.lower(), one character
LowerChar(c) ==
    CASE c = "T" -> "t" [] c = "F" -> "f" [] c = "G" -> "g" [] c = "P" -> "p"
      [] c = "S" -> "s" [] OTHER -> c

\* topic.lower()
Lower(topic) == [k \in 1..Len(topic) |-> LowerChar(topic[k])]

\* pattern in text
In(pattern, text) ==
    \E k \in 0..(Len(text) - Len(pattern)) :
        \A j \in 1..Len(pattern) : text[k + j] = pattern[j]

\* the '/tf' test made on the lower-cased name like every other test
TfTestLowered(topic) ==
    In(<<"/", "t", "f">>, Lower(topic))
        \/ In(<<"t", "r", "a", "n", "s", "f", "o", "r", "m">>, Lower(topic))

\* '/tf' in topic or 'transform' in topic_lower (line 314)
TfTest(topic) ==
    In(<<"/", "t", "f">>, topic)
        \/ In(<<"t", "r", "a", "n", "s", "f", "o", "r", "m">>, Lower(topic))

\* the if / elif chain of get_robot_sensors (lines 300-317)
Category(topic) ==
    LET topic_lower == Lower(topic)
    IN  IF In(<<"c", "a", "m", "e", "r", "a">>, topic_lower)
           \/ In(<<"i", "m", "a", "g", "e">>, topic_lower)
           \/ In(<<"/", "r", "g", "b">>, topic_lower)
        THEN "cameras"
        ELSE IF In(<<"l", "i", "d", "a", "r">>, topic_lower)
                \/ In(<<"s", "c", "a", "n">>, topic_lower)
                \/ In(<<"p", "o", "i", "n", "t", "c", "l", "o", "u", "d">>, topic_lower)
                \/ In(<<"l", "a", "s", "e", "r">>, topic_lower)
        THEN "lidars"
        ELSE IF In(<<"i", "m", "u">>, topic_lower) THEN "imu"
        ELSE IF In(<<"g", "p", "s">>, topic_lower)
                \/ In(<<"n", "a", "v", "s", "a", "t">>, topic_lower)
        THEN "gps"
        ELSE IF In(<<"o", "d", "o", "m">>, topic_lower) THEN "odometry"
        ELSE IF In(<<"j", "o", "i", "n", "t", "_", "s", "t", "a", "t", "e">>, topic_lower)
        THEN "joint_states"
        ELSE IF TfTest(topic) THEN "tf"
        ELSE "other"

Categories ==
    {"cameras", "lidars", "imu", "gps", "odometry", "joint_states", "tf", "other"}

\* {} : no robot, or no category
EmptyDict == [k \in {} |-> <<>>]

\* NetworkRobotDiscovery.get_robot_sensors(hostname): the returned dictionary
get_robot_sensors(robots, hostname) ==
    IF hostname \notin DOMAIN robots
    THEN EmptyDict
    ELSE LET sensors == [c \in Categories |->
                            SelectSeq(robots[hostname], LAMBDA t : Category(t) = c)]
         IN  [c \in {k \in Categories : sensors[k] # <<>>} |-> sensors[c]]

NoSensors == [hostname |-> "none", result |-> EmptyDict]

SensorsInit ==
    /\ discovered_robots = EmptyDict
    /\ nd_sensors = NoSensors

\* a call of get_robot_sensors(hostname)
NdGetRobotSensors(hostname) ==
    /\ nd_sensors' = [hostname |-> hostname,
                      result |-> get_robot_sensors(discovered_robots, hostname)]
    /\ UNCHANGED <<network_discovery, environ, nd_last, discovered_robots>>

SensorsNext ==
    NdOnly /\ \E hostname \in Hostnames : NdGetRobotSensors(hostname)

----------------------------------------------------------------------------
(***************************************************************************)
(* ML exporter (package_bag_for_ml).  The file system under out_root is a  *)
(* map from package directory to what the directory holds.                 *)
(***************************************************************************)
MaxPackages == 3

MaxMlClock == 4

\* datetime.now() advances in ticks; this many ticks make one second
TicksPerSecond == 2

\* the bags on disk: a bag directory and a single-file bag; "missing" does not exist
BagPaths == {"rec1", "rec2.db3", "missing"}

BagExists(bag_path) == bag_path # "missing"

BagIsDir(bag_path) == bag_path = "rec1"

\* os.path.basename(bag_path.rstrip(os.sep)): the paths above have one component
Basename(bag_path) == bag_path

\* datetime.now().strftime('%Y%m%d_%H%M%S'): the time of day cut to the second
Timestamp(now) == now \div TicksPerSecond

\* os.path.join(out_root, f"{bag_name}_{timestamp}")
PackageDir(bag_name, now) == <<bag_name, Timestamp(now)>>

MlInit ==
    /\ ml_now = 0
    /\ ml_datasets = [d \in {} |-> 0]
    /\ ml_calls = <<>>

\* package_bag_for_ml(bag_path): raw/ is created (or kept, exist_ok) and the
\* bag copied into it, a directory bag replacing a copy already there;
\* metadata.json, schema.json and <bag_name>.tar.gz are written over
\* whatever the directory held
package_bag_for_ml(bag_path) ==
    /\ Len(ml_calls) < MaxPackages
    /\ IF ~BagExists(bag_path)
       THEN /\ ml_calls' = Append(ml_calls, [bag_path |-> bag_path, raised |-> TRUE,
                                              package_dir |-> <<>>, packaged_at |-> ml_now])
            /\ UNCHANGED ml_datasets
       ELSE LET bag_name == Basename(bag_path)
                package_dir == PackageDir(bag_name, ml_now)
                raw == {bag_name}
                contents == [raw |-> raw,
                             metadata |-> [bag_name |-> bag_name,
                                           original_path |-> bag_path,
                                           packaged_at |-> ml_now,
                                           raw_size_bytes |-> IF BagIsDir(bag_path)
                                                              THEN 2 ELSE 1],
                             schema |-> "topics: {}",
                             archive |-> raw]
            IN  /\ ml_datasets' = Put(ml_datasets, package_dir, contents)
                /\ ml_calls' = Append(ml_calls, [bag_path |-> bag_path, raised |-> FALSE,
                                                  package_dir |-> package_dir,
                                                  packaged_at |-> ml_now])
    /\ UNCHANGED ml_now

\* time passes
MlTick ==
    /\ ml_now < MaxMlClock
    /\ ml_now' = ml_now + 1
    /\ UNCHANGED <<ml_datasets, ml_calls>>

MlOnly == UNCHANGED <<coreVars, mrVars, mcVars, pmVars, ndVars, shVars, restVars, stopVars>>

MlNext ==
    \/ MlOnly /\ \E bag_path \in BagPaths : package_bag_for_ml(bag_path)
    \/ MlOnly /\ MlTick

----------------------------------------------------------------------------
(***************************************************************************)
(* Recording control: the panel (RecordingControlWidget), the shell        *)
(* (MainWindow) and the Facade's recording lifecycle.  The Facade          *)
(* (core/ros2_manager.py) is modelled from its specified contract:         *)
(* start_recording rejects when a session is active, otherwise spawns the  *)
(* record command and returns a success flag; stop_recording terminates    *)
(* the process and is idempotent.                                          *)
(***************************************************************************)
MaxStarts == 3

NoProcess == 0

NoRobot == "none"

RecReq(op, call, reached, active, success, before) ==
    [op |-> op, call |-> call, reached_facade |-> reached, active_before |-> active,
     success |-> success, procs_before |-> before]

RecInit ==
    /\ rc_is_recording = FALSE
    /\ start_btn = TRUE
    /\ stop_btn = FALSE
    /\ dir_input = "~/ros2_recordings"
    /\ dir_input_enabled = TRUE
    /\ current_bag_metadata = NoRobot
    /\ mw_is_recording = FALSE
    /\ selected_topics = FALSE
    /\ recording_process = NoProcess
    /\ rec_procs = {}
    /\ next_pid = 1
    /\ rec_req = RecReq("none", "none", FALSE, FALSE, FALSE, {})
    /\ status_label = "Status: Ready"

\* Facade.start_recording never refuses (a Facade without the guard)
StartRefusedNever == FALSE

\* Facade.start_recording: a RecordingSession is already active
StartRefused == recording_process # NoProcess

\* Facade.start_recording(bag_name): the success flag and the Facade's state after it
ros2_start_recording(spawn_ok) ==
    IF StartRefused \/ ~spawn_ok
    THEN [success |-> FALSE, recording_process |-> recording_process,
          rec_procs |-> rec_procs, next_pid |-> next_pid]
    ELSE [success |-> TRUE, recording_process |-> next_pid,
          rec_procs |-> rec_procs \cup {next_pid}, next_pid |-> next_pid + 1]

\* Facade.stop_recording(): terminates the process, no-op without a session
ros2_stop_recording ==
    /\ recording_process' = NoProcess
    /\ rec_procs' = rec_procs \ {recording_process}

\* MainWindow.on_recording_started / on_recording_stopped (direct connections)
on_recording_started ==
    /\ mw_is_recording' = TRUE
    /\ metrics_collector' = reset(metrics_collector, mc_now)
    /\ mc_resets' = mc_resets + 1
    /\ mc_hist' = <<>>
    /\ metrics_timer' = perf_settings.metrics_update_interval
    /\ UNCHANGED <<mc_now, last_metrics_update, stopVars>>

\* a NetworkUploadWidget that had an auto_upload attribute
HasAutoUploadAttr == TRUE

\* hasattr(self.network_upload, 'auto_upload'): the widget defines
\* auto_upload_check and no auto_upload
HasAutoUpload == FALSE

\* NetworkUploadWidget.add_recording_upload: the widget holds a manager from
\* init_ui on (a placeholder first), so the check box decides
add_recording_upload(queue, bag_path) ==
    IF auto_upload_check THEN Append(queue, bag_path) ELSE queue

NoStop == [stops |-> 0, manager |-> FALSE, auto |-> FALSE, on_disk |-> FALSE]

NuInit ==
    /\ network_manager = FALSE
    /\ auto_upload_check = TRUE
    /\ bag_on_disk = TRUE
    /\ upload_queue = <<>>
    /\ nu_last = NoStop

on_recording_stopped ==
    /\ mw_is_recording' = FALSE
    /\ metrics_timer' = perf_settings.metrics_update_interval * 2
    /\ UNCHANGED mcVars
    /\ LET bag_path == recording_process
           \* the first block: upload_directory(bag_path) after a second
           q1 == IF network_manager /\ HasAutoUpload /\ auto_upload_check
                 THEN Append(upload_queue, bag_path)
                 ELSE upload_queue
           \* the second block
           q2 == IF network_manager /\ bag_on_disk
                 THEN add_recording_upload(q1, bag_path)
                 ELSE q1
       IN  upload_queue' = q2
    /\ nu_last' = [stops |-> nu_last.stops + 1, manager |-> network_manager,
                   auto |-> auto_upload_check, on_disk |-> bag_on_disk]

\* the topics argument of a Facade start: every topic, or the selection
AllTopics == "all"

ExplicitSelection == "selection"

\* start_recording: self.ros2_manager.start_recording(bag_name), the topics
\* argument being left to the Facade's default whatever is selected
StartTopics(selected) == AllTopics

\* start_recording locking the panel whatever the Facade answers
PanelLocksAlways(success) == TRUE

\* start_recording: "if success:", the panel locks and reports the start
PanelLocks(success) == success

\* RecordingControlWidget.start_recording(robot_metadata)
start_recording(op, robot_metadata, spawn_ok) ==
    IF dir_input = ""
    THEN /\ rec_req' = RecReq(op, "start", FALSE, recording_process # NoProcess, FALSE, rec_procs)
         /\ UNCHANGED <<rc_is_recording, start_btn, stop_btn, dir_input,
                        dir_input_enabled, current_bag_metadata, mw_is_recording,
                        selected_topics, recording_process, rec_procs, next_pid,
                        status_label>>
         /\ UNCHANGED <<mcVars, metrics_timer, stopVars>>
    ELSE LET r == ros2_start_recording(spawn_ok) IN
         /\ rec_req' = RecReq(op, "start", TRUE, recording_process # NoProcess, r.success, rec_procs)
         /\ recording_process' = r.recording_process
         /\ rec_procs' = r.rec_procs
         /\ next_pid' = r.next_pid
         /\ IF PanelLocks(r.success)
            THEN /\ rc_is_recording' = TRUE
                 /\ current_bag_metadata' = robot_metadata
                 /\ start_btn' = FALSE
                 /\ stop_btn' = TRUE
                 /\ dir_input_enabled' = FALSE
                 /\ status_label' = "Status: Recording"
                 /\ on_recording_started
            ELSE UNCHANGED <<rc_is_recording, current_bag_metadata, start_btn,
                             stop_btn, dir_input_enabled, mw_is_recording, mcVars,
                             metrics_timer, status_label, stopVars>>
         /\ UNCHANGED <<dir_input, selected_topics>>

\* RecordingControlWidget.stop_recording()
stop_recording(op) ==
    /\ rec_req' = RecReq(op, "stop", TRUE, recording_process # NoProcess, TRUE, rec_procs)
    /\ ros2_stop_recording
    /\ rc_is_recording' = FALSE
    /\ start_btn' = TRUE
    /\ stop_btn' = FALSE
    /\ dir_input_enabled' = TRUE
    /\ status_label' = "Status: Stopped"
    /\ on_recording_stopped
    /\ UNCHANGED <<dir_input, current_bag_metadata, selected_topics, next_pid>>

\* a request that ends in a warning before the panel is reached
RecWarned(op) ==
    /\ rec_req' = RecReq(op, "none", FALSE, recording_process # NoProcess, FALSE, rec_procs)
    /\ UNCHANGED <<rc_is_recording, start_btn, stop_btn, dir_input,
                   dir_input_enabled, current_bag_metadata, mw_is_recording,
                   selected_topics, recording_process, rec_procs, next_pid,
                   status_label>>
    /\ UNCHANGED <<mcVars, metrics_timer, stopVars>>

\* MainWindow.toggle_recording (Ctrl+R and the tray's "Start Recording")
toggle_recording(spawn_ok) ==
    IF ~rc_is_recording
    THEN IF ~selected_topics
         THEN RecWarned("toggle")
         ELSE start_recording("toggle", NoRobot, spawn_ok)
    ELSE stop_recording("toggle")

\* MainWindow.stop_recording_shortcut (Ctrl+S)
stop_recording_shortcut ==
    IF rc_is_recording
    THEN stop_recording("shortcut")
    ELSE RecWarned("shortcut")

\* MainWindow.on_robot_selected, the user choosing "Start Recording Now"
on_robot_selected(selected_count, spawn_ok) ==
    IF selected_count > 0
    THEN start_recording("robot", "robot", spawn_ok)
    ELSE RecWarned("robot")

\* the user edits the output directory, or changes the topic selection
EditDirectory(text) ==
    /\ dir_input_enabled
    /\ dir_input' = text
    /\ UNCHANGED <<rc_is_recording, start_btn, stop_btn, dir_input_enabled,
                   current_bag_metadata, mw_is_recording, selected_topics,
                   recording_process, rec_procs, next_pid, rec_req, status_label>>
    /\ UNCHANGED <<mcVars, metrics_timer, stopVars>>

SelectTopics(nonempty) ==
    /\ selected_topics' = nonempty
    /\ UNCHANGED <<rc_is_recording, start_btn, stop_btn, dir_input,
                   dir_input_enabled, current_bag_metadata, mw_is_recording,
                   recording_process, rec_procs, next_pid, rec_req, status_label>>
    /\ UNCHANGED <<mcVars, metrics_timer, stopVars>>

\* MetricsCollector.get_live_metrics(ros2_manager)
get_live_metrics(self, now, host) ==
    LET s1 == update_system_metrics(self, now, host)
    IN  IF now - s1.last_topic_check > 3 /\ host.ok
        THEN [s1 EXCEPT !.metrics.topic_count = host.topics,
                        !.last_topic_check = now]
        ELSE s1

\* MainWindow.update_metrics (the metrics timer's callback)
update_metrics(dir, host) ==
    /\ Len(mc_hist) < MaxUpdates
    /\ IF 2 * (mc_now - last_metrics_update) < 1
       THEN UNCHANGED mcVars
       ELSE /\ last_metrics_update' = mc_now
            /\ IF mw_is_recording
               THEN /\ metrics_collector' = update(metrics_collector, mc_now, dir, host)
                    /\ mc_hist' = Append(mc_hist, [time |-> mc_now, dir |-> dir])
               ELSE /\ metrics_collector' = get_live_metrics(metrics_collector, mc_now, host)
                    /\ UNCHANGED mc_hist
            /\ UNCHANGED <<mc_now, mc_resets>>
    /\ UNCHANGED <<recVars, metrics_timer, stopVars>>

\* the shell is followed for this long
MaxShellClock == 2

RecOnly == UNCHANGED <<upVars, isoVars, asVars, trVars, mrVars, pmVars, ndVars, mlVars, shKept,
                       restVars>>

\* the spawn of one more record process may succeed only below the bound
SpawnOutcomes == IF next_pid <= MaxStarts THEN BOOLEAN ELSE {FALSE}

RecNext ==
    \/ /\ RecOnly
       /\ start_btn
       /\ \E spawn_ok \in SpawnOutcomes : start_recording("button", NoRobot, spawn_ok)
    \/ /\ RecOnly
       /\ stop_btn
       /\ stop_recording("button")
    \/ /\ RecOnly
       /\ \E spawn_ok \in SpawnOutcomes : toggle_recording(spawn_ok)
    \/ /\ RecOnly
       /\ stop_recording_shortcut
    \/ /\ RecOnly
       /\ \E selected_count \in 0..1, spawn_ok \in SpawnOutcomes :
             on_robot_selected(selected_count, spawn_ok)
    \/ /\ RecOnly
       /\ \E text \in {"", "~/ros2_recordings"} : EditDirectory(text)
    \/ /\ RecOnly
       /\ \E nonempty \in BOOLEAN : SelectTopics(nonempty)
    \/ /\ RecOnly
       /\ \E dir \in DirStates, host \in Hosts : update_metrics(dir, host)
    \/ /\ RecOnly
       /\ mc_now < MaxShellClock
       /\ McTick
       /\ UNCHANGED <<recVars, metrics_timer, stopVars>>

----------------------------------------------------------------------------
(***************************************************************************)
(* Recording isolation harness (src/test_recording_isolation.py) run       *)
(* against the Facade.  From the Facade's specified contract: the record   *)
(* command is a detached operating-system process, and the session's       *)
(* health-check counter is advanced by periodic health checks that do not  *)
(* run on the controlling thread; get_recording_health reports the         *)
(* process id and the counter, or nothing once the process has exited.     *)
(***************************************************************************)
StabilizeSeconds == 2

FreezeSeconds == 10

HealthCheckInterval == 5

NoHealth == [ok |-> FALSE, pid |-> NoProcess, health_checks |-> 0]

IsoInit ==
    /\ iso_pc = "start"
    /\ iso_clock = 0
    /\ iso_wake = 0
    /\ health_checks = 0
    /\ next_check = 0
    /\ health_before = NoHealth
    /\ health_after = NoHealth
    /\ iso_result = "none"
    /\ iso_crashed = FALSE

\* the controlling thread is inside time.sleep
MainBlocked == iso_pc \in {"stabilize", "freeze"}

RecorderAlive == recording_process # NoProcess /\ recording_process \in rec_procs

\* recording as a thread of the controlling process: it runs only while
\* the controlling thread is not blocked
RunsOnlyWhenUnblocked(blocked) == ~blocked

\* recording as a detached process: it runs whatever the controlling thread does
RunsWhileBlocked(blocked) == TRUE

\* Facade.get_recording_health()
get_recording_health ==
    IF RecorderAlive
    THEN [ok |-> TRUE, pid |-> recording_process, health_checks |-> health_checks]
    ELSE NoHealth

HealthCheckDue ==
    /\ RecorderAlive
    /\ RunsWhileBlocked(MainBlocked)
    /\ iso_clock >= next_check

\* lines 25-37: start the recording, then sleep to let it stabilize
IsoStart(spawn_ok, phase) ==
    /\ iso_pc = "start"
    /\ LET r == ros2_start_recording(spawn_ok) IN
       /\ recording_process' = r.recording_process
       /\ rec_procs' = r.rec_procs
       /\ next_pid' = r.next_pid
       /\ IF ~r.success
          THEN /\ iso_pc' = "done"
               /\ iso_result' = "fail"
               /\ UNCHANGED <<iso_wake, next_check>>
          ELSE /\ iso_pc' = "stabilize"
               /\ iso_wake' = iso_clock + StabilizeSeconds
               /\ next_check' = iso_clock + phase
               /\ UNCHANGED iso_result
    /\ UNCHANGED <<iso_clock, health_checks, health_before, health_after, iso_crashed>>

\* lines 40-54: first reading, then the 10 s block of the controlling thread
IsoFreeze ==
    /\ iso_pc = "stabilize"
    /\ iso_clock = iso_wake
    /\ health_before' = get_recording_health
    /\ iso_pc' = "freeze"
    /\ iso_wake' = iso_clock + FreezeSeconds
    /\ UNCHANGED <<facadeVars, iso_clock, health_checks, next_check,
                   health_after, iso_result, iso_crashed>>

\* lines 55-65: the block is over, second reading
IsoUnfreeze ==
    /\ iso_pc = "freeze"
    /\ iso_clock = iso_wake
    /\ health_after' = get_recording_health
    /\ IF get_recording_health.ok
       THEN iso_pc' = "verify" /\ UNCHANGED iso_result
       ELSE iso_pc' = "done" /\ iso_result' = "fail"
    /\ UNCHANGED <<facadeVars, iso_clock, iso_wake, health_checks, next_check,
                   health_before, iso_crashed>>

\* lines 80-91: psutil.Process(pid).is_running()
IsoVerify ==
    /\ iso_pc = "verify"
    /\ IF health_after.pid \in rec_procs
       THEN iso_pc' = "stop" /\ UNCHANGED iso_result
       ELSE iso_pc' = "done" /\ iso_result' = "fail"
    /\ UNCHANGED <<facadeVars, iso_clock, iso_wake, health_checks, next_check,
                   health_before, health_after, iso_crashed>>

\* lines 94-109: stop the recording and report success
IsoStop ==
    /\ iso_pc = "stop"
    /\ ros2_stop_recording
    /\ iso_pc' = "done"
    /\ iso_result' = "pass"
    /\ UNCHANGED <<next_pid, iso_clock, iso_wake, health_checks, next_check,
                   health_before, health_after, iso_crashed>>

\* one periodic health check of the running recording
HealthCheck ==
    /\ iso_pc # "done"
    /\ HealthCheckDue
    /\ health_checks' = health_checks + 1
    /\ next_check' = iso_clock + HealthCheckInterval
    /\ UNCHANGED <<facadeVars, iso_pc, iso_clock, iso_wake, health_before,
                   health_after, iso_result, iso_crashed>>

\* the record process exits on its own
RecorderExits ==
    /\ iso_pc # "done"
    /\ RecorderAlive
    /\ rec_procs' = rec_procs \ {recording_process}
    /\ iso_crashed' = TRUE
    /\ UNCHANGED <<recording_process, next_pid, iso_pc, iso_clock, iso_wake,
                   health_checks, next_check, health_before, health_after,
                   iso_result>>

\* a second passes while the controlling thread sleeps
IsoTick ==
    /\ MainBlocked
    /\ iso_clock < iso_wake
    /\ ~HealthCheckDue
    /\ iso_clock' = iso_clock + 1
    /\ UNCHANGED <<facadeVars, iso_pc, iso_wake, health_checks, next_check,
                   health_before, health_after, iso_result, iso_crashed>>

IsoNext ==
    \/ /\ UNCHANGED <<upVars, panelVars, asVars, trVars, extVars>>
       /\ \E spawn_ok \in BOOLEAN, phase \in 1..HealthCheckInterval :
             IsoStart(spawn_ok, phase)
    \/ UNCHANGED <<upVars, panelVars, asVars, trVars, extVars>> /\ IsoFreeze
    \/ UNCHANGED <<upVars, panelVars, asVars, trVars, extVars>> /\ IsoUnfreeze
    \/ UNCHANGED <<upVars, panelVars, asVars, trVars, extVars>> /\ IsoVerify
    \/ UNCHANGED <<upVars, panelVars, asVars, trVars, extVars>> /\ IsoStop
    \/ UNCHANGED <<upVars, panelVars, asVars, trVars, extVars>> /\ HealthCheck
    \/ UNCHANGED <<upVars, panelVars, asVars, trVars, extVars>> /\ RecorderExits
    \/ UNCHANGED <<upVars, panelVars, asVars, trVars, extVars>> /\ IsoTick

----------------------------------------------------------------------------
(***************************************************************************)
(* Asynchronous execution layer (src/core/async_worker.py): the UI thread  *)
(* issues get_<key>_async calls and receives the workers' signals through  *)
(* its event queue; each miss starts a ROS2Worker on the thread pool.      *)
(***************************************************************************)
MaxCalls == 2

MaxTime == 2

\* the cache_timeout of the high-performance mode, in seconds
cache_timeout == 1

max_threads == 2

Keys == {"topics", "nodes", "services"}

Results == {"r1", "r2"}

NoResult == "none"

Never == -1

AsCall(key, hit) == [key |-> key, hit |-> hit]

\* a handled signal: its kind, and whether its worker had written the cache
Fired(kind, stored) == [kind |-> kind, stored |-> stored]

AsInit ==
    /\ as_clock = 0
    /\ cache = EmptyMap
    /\ cache_timestamps = EmptyMap
    /\ workers = EmptyMap
    /\ ui_queue = <<>>
    /\ last_issued = [k \in Keys |-> Never]
    /\ as_calls = 0
    /\ as_last = AsCall(NoResult, FALSE)
    /\ cb_fired = Fired("none", FALSE)

\* AsyncROS2Manager._is_cached(key)
_is_cached(key) ==
    IF key \notin DOMAIN cache
    THEN FALSE
    ELSE LET stamp == IF key \in DOMAIN cache_timestamps
                      THEN cache_timestamps[key] ELSE 0
         IN  as_clock - stamp < cache_timeout

\* the workers that occupy a thread of the pool
ActiveThreads(ws) ==
    {i \in DOMAIN ws : ws[i].pc \in {"running", "stored"}}

\* QThreadPool: while a thread is free the oldest queued worker gets it
RECURSIVE Schedule(_)
Schedule(ws) ==
    LET queued == {i \in DOMAIN ws : ws[i].pc = "queued"} IN
    IF queued = {} \/ Cardinality(ActiveThreads(ws)) >= max_threads
    THEN ws
    ELSE LET i == CHOOSE q \in queued : \A r \in queued : q <= r
         IN  Schedule([ws EXCEPT ![i].pc = "running"])

\* get_topics_async / get_nodes_async / get_services_async (callback)
get_async(key) ==
    /\ as_calls < MaxCalls
    /\ as_calls' = as_calls + 1
    /\ last_issued' = [last_issued EXCEPT ![key] = as_clock]
    /\ IF _is_cached(key)
       THEN /\ as_last' = AsCall(key, TRUE)
            /\ UNCHANGED workers
       ELSE /\ as_last' = AsCall(key, FALSE)
            /\ workers' = Schedule(Put(workers, as_calls + 1,
                              [key |-> key, pc |-> "queued", result |-> NoResult,
                               stored |-> FALSE]))
    /\ UNCHANGED <<as_clock, cache, cache_timestamps, ui_queue, cb_fired>>

\* _wrapper: result = self.ros2_manager.get_<key>_info(), then, under the
\* lock, the write of the result and its timestamp
WorkerStore(i, result) ==
    /\ workers[i].pc = "running"
    /\ cache' = Put(cache, workers[i].key, result)
    /\ cache_timestamps' = Put(cache_timestamps, workers[i].key, as_clock)
    /\ workers' = [workers EXCEPT ![i].pc = "stored", ![i].result = result,
                                  ![i].stored = TRUE]
    /\ UNCHANGED <<as_clock, ui_queue, last_issued, as_calls, as_last, cb_fired>>

\* ROS2Worker.run emitting the result before fn has returned
EmitReadyBeforeReturn(w) == w.pc \in {"running", "stored"}

\* ROS2Worker.run: the result is emitted once fn has returned
EmitReady(w) == w.pc = "stored"

\* ROS2Worker.run: self.signals.result.emit(result), then finished
WorkerEmit(i) ==
    /\ EmitReady(workers[i])
    /\ ui_queue' = Append(ui_queue, [task |-> i, kind |-> "result"])
    /\ workers' = Schedule([workers EXCEPT ![i].pc = "done"])
    /\ UNCHANGED <<as_clock, cache, cache_timestamps, last_issued, as_calls,
                   as_last, cb_fired>>

\* ROS2Worker.run taking fn's return for an exception as well
RaisedOrReturned(w) == w.pc \in {"running", "stored"}

\* ROS2Worker.run: fn raised, which the Facade's query does before _wrapper
\* writes the cache
Raised(w) == w.pc = "running"

\* ROS2Worker.run: the Facade's query raises; self.signals.error.emit(...),
\* then finished
WorkerEmitError(i) ==
    /\ Raised(workers[i])
    /\ ui_queue' = Append(ui_queue, [task |-> i, kind |-> "error"])
    /\ workers' = Schedule([workers EXCEPT ![i].pc = "done"])
    /\ UNCHANGED <<as_clock, cache, cache_timestamps, last_issued, as_calls,
                   as_last, cb_fired>>

\* the UI thread takes the next signal: the caller's callback, or _handle_error
UiDeliver ==
    /\ ui_queue # <<>>
    /\ ui_queue' = Tail(ui_queue)
    /\ workers' = Del(workers, Head(ui_queue).task)
    /\ cb_fired' = Fired(Head(ui_queue).kind,
                         /\ workers[Head(ui_queue).task].stored
                         /\ workers[Head(ui_queue).task].key \in DOMAIN cache
                         /\ workers[Head(ui_queue).task].key \in DOMAIN cache_timestamps)
    /\ UNCHANGED <<as_clock, cache, cache_timestamps, last_issued, as_calls, as_last>>

AsTick ==
    /\ as_clock < MaxTime
    /\ as_clock' = as_clock + 1
    /\ UNCHANGED <<cache, cache_timestamps, workers, ui_queue, last_issued,
                   as_calls, as_last, cb_fired>>

AsOnly == UNCHANGED <<upVars, recVars, isoVars, trVars, extVars>>

AsNext ==
    \/ AsOnly /\ \E key \in Keys : get_async(key)
    \/ AsOnly /\ \E i \in DOMAIN workers, result \in Results : WorkerStore(i, result)
    \/ AsOnly /\ \E i \in DOMAIN workers : WorkerEmit(i)
    \/ AsOnly /\ \E i \in DOMAIN workers : WorkerEmitError(i)
    \/ AsOnly /\ UiDeliver
    \/ AsOnly /\ AsTick

----------------------------------------------------------------------------
(***************************************************************************)
(* Smart recording triggers (src/core/recording_triggers.py): four         *)
(* triggers, two configured as start-triggers and two as stop-triggers,    *)
(* and the SmartRecordingManager polling them.  What a trigger observes    *)
(* (the live topics, the metrics) is an input of each check_triggers call. *)
(***************************************************************************)
TopicAppears == "TopicAppearsTrigger"

MessageRate == "MessageRateTrigger"

Duration == "DurationTrigger"

DiskSpace == "DiskSpaceTrigger"

Triggers == {TopicAppears, MessageRate, Duration, DiskSpace}

\* the threshold every threshold trigger is configured with
threshold == 1

MetricValues == 0..threshold

\* the observations of one cycle: whether a topic matching the pattern is
\* live, and the metrics the threshold triggers read
Observations ==
    [topic : BOOLEAN, message_rate : MetricValues, duration : MetricValues,
     disk_usage_percent : MetricValues]

\* the triggers that get configured as start-triggers / as stop-triggers
StartKinds == {TopicAppears, MessageRate}

StopKinds == {Duration, DiskSpace}

pre_buffer_maxlen == 100

\* a check_triggers call: the state it found (recording or not, the two
\* lists), the triggers it checked, what each check returned, the requests
\* raised, and the last request raised before the call
Cycle(ran, was, checked, results, events, prev) ==
    [ran |-> ran, was_recording |-> was, start |-> start_triggers,
     stop |-> stop_triggers, checked |-> checked, results |-> results,
     events |-> events, prev_request |-> prev]

\* the last request the manager has raised so far
LastRequest(cycle) ==
    IF cycle.events # <<>>
    THEN cycle.events[Len(cycle.events)]
    ELSE cycle.prev_request

TrInit ==
    /\ start_triggers = <<>>
    /\ stop_triggers = <<>>
    /\ enabled = [t \in Triggers |-> TRUE]
    /\ activated = [t \in Triggers |-> FALSE]
    /\ monitoring_enabled = FALSE
    /\ recording_active = FALSE
    /\ pre_buffer_enabled = FALSE
    /\ pre_buffer_data = <<>>
    /\ last_cycle = Cycle(FALSE, FALSE, <<>>, <<>>, <<>>, "none")

InList(list, t) == \E k \in 1..Len(list) : list[k] = t

\* a start handler that raises the request and leaves recording_active alone
on_start_trigger_unlatched(st) ==
    IF ~st.recording_active
    THEN [st EXCEPT !.events = Append(@, "auto_start_requested")]
    ELSE st

\* on_start_trigger_activated(reason)
on_start_trigger_activated(st) ==
    IF ~st.recording_active
    THEN [st EXCEPT !.recording_active = TRUE,
                    !.events = Append(@, "auto_start_requested")]
    ELSE st

\* on_stop_trigger_activated(reason)
on_stop_trigger_activated(st) ==
    IF st.recording_active
    THEN [st EXCEPT !.recording_active = FALSE,
                    !.events = Append(@, "auto_stop_requested")]
    ELSE st

\* trigger_activated.emit(reason): the slots connected by add_start_trigger
\* and add_stop_trigger run at once
emit_trigger_activated(t, st) ==
    LET s1 == IF InList(start_triggers, t) THEN on_start_trigger_activated(st) ELSE st
    IN  IF InList(stop_triggers, t) THEN on_stop_trigger_activated(s1) ELSE s1

\* the condition a trigger's check evaluates on what it observes
Condition(t, obs) ==
    CASE t = TopicAppears -> obs.topic
      [] t = MessageRate  -> obs.message_rate >= threshold
      [] t = Duration     -> obs.duration >= threshold
      [] t = DiskSpace    -> obs.disk_usage_percent >= threshold

\* if not self.activated: the signal is emitted on the first match only
EmitsOnMatch(t, st) == ~st.activated[t]

\* the activation signal is emitted on every check at or above the threshold
RateEmitsOnEveryMatch(self) == TRUE

\* if not self.activated: (MessageRateTrigger.check, line 86)
RateEmitsOnMatch(self) == ~self.activated

\* MessageRateTrigger.check(ros2_manager, metrics) on a trigger object
\* self = [enabled, activated, threshold]: the returned flag, the object
\* after the call and the signal emitted
MessageRateTrigger_check(current_rate, self) ==
    IF ~self.enabled
    THEN [ret |-> FALSE, self |-> self, signal |-> "none"]
    ELSE IF current_rate >= self.threshold
    THEN IF RateEmitsOnMatch(self)
         THEN [ret |-> TRUE, self |-> [self EXCEPT !.activated = TRUE],
               signal |-> "trigger_activated"]
         ELSE [ret |-> TRUE, self |-> self, signal |-> "none"]
    ELSE IF self.activated
         THEN [ret |-> FALSE, self |-> [self EXCEPT !.activated = FALSE],
               signal |-> "trigger_deactivated"]
         ELSE [ret |-> FALSE, self |-> self, signal |-> "none"]

\* <Trigger>.check(ros2_manager, metrics): the returned flag and the state after
check(t, obs, st) ==
    IF t = MessageRate
    THEN LET r == MessageRateTrigger_check(obs.message_rate,
                      [enabled |-> enabled[t], activated |-> st.activated[t],
                       threshold |-> threshold])
             s1 == [st EXCEPT !.activated[t] = r.self.activated]
         IN  [ret |-> r.ret,
              st |-> IF r.signal = "trigger_activated"
                     THEN emit_trigger_activated(t, s1)
                     ELSE s1]
    ELSE IF ~enabled[t]
    THEN [ret |-> FALSE, st |-> st]
    ELSE IF Condition(t, obs)
    THEN [ret |-> TRUE,
          st |-> IF EmitsOnMatch(t, st)
                 THEN emit_trigger_activated(t, [st EXCEPT !.activated[t] = TRUE])
                 ELSE st]
    ELSE [ret |-> FALSE, st |-> st]

\* the loop runs over the whole list
NeverBreaks(ret) == FALSE

\* if trigger.check(...): break
Breaks(ret) == ret

\* for trigger in list: if trigger.check(self.ros2_manager, metrics): break
RECURSIVE CheckList(_, _, _, _)
CheckList(list, k, obs, st) ==
    IF k > Len(list)
    THEN st
    ELSE LET r == check(list[k], obs, st)
             s1 == [r.st EXCEPT !.checked = Append(@, list[k]),
                                !.results = Append(@, r.ret)]
         IN  IF Breaks(r.ret) THEN s1 ELSE CheckList(list, k + 1, obs, s1)

\* {'timestamp': datetime.now(), 'topics': ..., 'metrics': metrics.copy()}:
\* what the cycle observed
Snapshot(obs) == obs

\* append to a list that has no maxlen
list_append(dq, x) == Append(dq, x)

\* deque(maxlen=100).append(x): a full deque drops its oldest element
deque_append(dq, x) ==
    IF Len(dq) >= pre_buffer_maxlen THEN Append(Tail(dq), x) ELSE Append(dq, x)

\* SmartRecordingManager.check_triggers()
check_triggers(obs) ==
    IF ~monitoring_enabled
    THEN /\ last_cycle' = Cycle(FALSE, recording_active, <<>>, <<>>, <<>>,
                                LastRequest(last_cycle))
         /\ UNCHANGED <<start_triggers, stop_triggers, enabled, activated,
                        monitoring_enabled, recording_active, pre_buffer_enabled,
                        pre_buffer_data>>
    ELSE LET st0 == [activated |-> activated, recording_active |-> recording_active,
                     events |-> <<>>, checked |-> <<>>, results |-> <<>>]
             st1 == IF ~recording_active
                    THEN CheckList(start_triggers, 1, obs, st0)
                    ELSE CheckList(stop_triggers, 1, obs, st0)
         IN  /\ pre_buffer_data' =
                   IF pre_buffer_enabled
                   THEN deque_append(pre_buffer_data, Snapshot(obs))
                   ELSE pre_buffer_data
             /\ activated' = st1.activated
             /\ recording_active' = st1.recording_active
             /\ last_cycle' = Cycle(TRUE, recording_active, st1.checked,
                                    st1.results, st1.events, LastRequest(last_cycle))
             /\ UNCHANGED <<start_triggers, stop_triggers, enabled,
                            monitoring_enabled, pre_buffer_enabled>>

\* add_start_trigger(trigger) / add_stop_trigger(trigger), each trigger
\* object being configured once
add_start_trigger(t) ==
    /\ ~InList(start_triggers \o stop_triggers, t)
    /\ start_triggers' = Append(start_triggers, t)
    /\ UNCHANGED <<stop_triggers, enabled, activated, monitoring_enabled,
                   recording_active, pre_buffer_enabled, pre_buffer_data, last_cycle>>

add_stop_trigger(t) ==
    /\ ~InList(start_triggers \o stop_triggers, t)
    /\ stop_triggers' = Append(stop_triggers, t)
    /\ UNCHANGED <<start_triggers, enabled, activated, monitoring_enabled,
                   recording_active, pre_buffer_enabled, pre_buffer_data, last_cycle>>

\* start_monitoring() / stop_monitoring()
start_monitoring ==
    /\ monitoring_enabled' = TRUE
    /\ UNCHANGED <<start_triggers, stop_triggers, enabled, activated,
                   recording_active, pre_buffer_enabled, pre_buffer_data, last_cycle>>

stop_monitoring ==
    /\ monitoring_enabled' = FALSE
    /\ UNCHANGED <<start_triggers, stop_triggers, enabled, activated,
                   recording_active, pre_buffer_enabled, pre_buffer_data, last_cycle>>

\* reset_all_triggers()
reset_all_triggers ==
    /\ activated' = [t \in Triggers |->
                       IF InList(start_triggers \o stop_triggers, t)
                       THEN FALSE ELSE activated[t]]
    /\ UNCHANGED <<start_triggers, stop_triggers, enabled, monitoring_enabled,
                   recording_active, pre_buffer_enabled, pre_buffer_data, last_cycle>>

\* trigger.enabled = value
set_enabled(t, value) ==
    /\ enabled' = [enabled EXCEPT ![t] = value]
    /\ UNCHANGED <<start_triggers, stop_triggers, activated, monitoring_enabled,
                   recording_active, pre_buffer_enabled, pre_buffer_data, last_cycle>>

TrOnly == UNCHANGED <<upVars, recVars, isoVars, asVars, extVars>>

TrNext ==
    \/ TrOnly /\ \E obs \in Observations : check_triggers(obs)
    \/ TrOnly /\ \E t \in StartKinds : add_start_trigger(t)
    \/ TrOnly /\ \E t \in StopKinds : add_stop_trigger(t)
    \/ TrOnly /\ start_monitoring
    \/ TrOnly /\ stop_monitoring
    \/ TrOnly /\ reset_all_triggers
    \/ TrOnly /\ \E t \in Triggers, value \in BOOLEAN : set_enabled(t, value)

----------------------------------------------------------------------------
(* A MessageRateTrigger constructed on its own and fed a stream of rates.  *)

MaxFeed == 4

rate_threshold == 5

\* rates on both sides of the threshold, the threshold itself included
RateValues == {0, rate_threshold - 3, rate_threshold, rate_threshold + 1}

Signals == {"none", "trigger_activated", "trigger_deactivated"}

\* MessageRateTrigger(threshold): RecordingTrigger.__init__ sets enabled
\* and clears activated
MrInit ==
    /\ mr_trigger = [enabled |-> TRUE, activated |-> FALSE,
                     threshold |-> rate_threshold]
    /\ mr_fed = <<>>
    /\ mr_plain = TRUE

\* trigger.check(ros2_manager, {'message_rate': rate})
MrFeed(rate) ==
    /\ Len(mr_fed) < MaxFeed
    /\ LET r == MessageRateTrigger_check(rate, mr_trigger)
       IN  /\ mr_trigger' = r.self
           /\ mr_fed' = Append(mr_fed, [rate |-> rate, signal |-> r.signal])
    /\ UNCHANGED mr_plain

\* trigger.enabled = value
MrSetEnabled(value) ==
    /\ mr_trigger' = [mr_trigger EXCEPT !.enabled = value]
    /\ mr_plain' = (mr_plain /\ value)
    /\ UNCHANGED mr_fed

\* RecordingTrigger.reset()
MrReset ==
    /\ mr_trigger' = [mr_trigger EXCEPT !.activated = FALSE]
    /\ mr_plain' = FALSE
    /\ UNCHANGED mr_fed

MrOnly == UNCHANGED <<coreVars, mcVars, pmVars, ndVars, mlVars, shVars, restVars, stopVars>>

MrNext ==
    \/ MrOnly /\ \E rate \in RateValues : MrFeed(rate)
    \/ MrOnly /\ \E value \in BOOLEAN : MrSetEnabled(value)
    \/ MrOnly /\ MrReset

----------------------------------------------------------------------------
(***************************************************************************)
(* The panel's rate table (RecordingControlWidget): one record per         *)
(* selected topic, refreshed every second while a recording is active.     *)
(***************************************************************************)
MaxRefreshes == 3

\* the topics the operator may select, and the rates the Facade reports
RtTopics == {"/scan", "/imu/data"}

Hz == {0, 5}

\* get_topics_info(): the live list, as name -> hz
TopicsInfos == UNION {[present -> Hz] : present \in SUBSET RtTopics}

\* the selections the Topic Monitor is followed through
Selections == {{}, {"/scan"}, RtTopics}

\* update_selected_topics: the record of a newly selected topic
NewTopicData == [rate |-> 0, last_rate |-> 0, stalled |-> FALSE, stalled_count |-> 0]

NeverSeen == [positive |-> FALSE, absent |-> FALSE]

RtInit ==
    /\ selected_topics_data = EmptyMap
    /\ rt_seen = EmptyMap
    /\ rt_last = EmptyMap
    /\ rt_refreshes = 0

\* RecordingControlWidget.update_selected_topics(selected_topics)
update_selected_topics(selection) ==
    /\ selected_topics_data' =
           [t \in selection |-> IF t \in DOMAIN selected_topics_data
                                THEN selected_topics_data[t] ELSE NewTopicData]
    /\ rt_seen' = [t \in selection |-> IF t \in DOMAIN rt_seen
                                       THEN rt_seen[t] ELSE NeverSeen]
    /\ UNCHANGED <<rt_last, rt_refreshes>>

\* TopicMonitor: the selection changes and topics_changed reaches the panel
RtSelect(selection) ==
    /\ selected_topics' = (selection # {})
    /\ update_selected_topics(selection)
    /\ UNCHANGED <<rc_is_recording, start_btn, stop_btn, dir_input,
                   dir_input_enabled, current_bag_metadata, mw_is_recording,
                   rec_req, status_label, facadeVars>>

\* update_topic_rates flagging every topic that reports no rate
StallsOnAnyZero(last_rate, rate) == rate = 0

\* update_topic_rates: the rate dropped to 0 from non-zero
StallsOnDrop(last_rate, rate) == last_rate > 0 /\ rate = 0

\* update_topic_rates: the loop body for one selected topic
UpdateRate(data, topics_info, topic_name) ==
    IF topic_name \in DOMAIN topics_info
    THEN LET rate == topics_info[topic_name]
             d1 == [data EXCEPT !.last_rate = data.rate, !.rate = rate]
         IN  IF StallsOnDrop(d1.last_rate, rate)
             THEN [d1 EXCEPT !.stalled = TRUE, !.stalled_count = @ + 1]
             ELSE IF rate > 0
             THEN [d1 EXCEPT !.stalled = FALSE, !.stalled_count = 0]
             ELSE d1
    ELSE [data EXCEPT !.rate = 0, !.stalled = TRUE, !.stalled_count = @ + 1]

\* refresh_selected_topics_table: the status shown for one topic
Status(data) ==
    IF data.stalled THEN "STALLED"
    ELSE IF data.rate > 0 THEN "OK"
    ELSE "NO DATA"

\* RecordingControlWidget.update_topic_rates (the rate timer's callback)
update_topic_rates(topics_info) ==
    /\ rt_refreshes < MaxRefreshes
    /\ IF ~rc_is_recording
       THEN UNCHANGED rtVars
       ELSE /\ selected_topics_data' =
                   [t \in DOMAIN selected_topics_data |->
                       UpdateRate(selected_topics_data[t], topics_info, t)]
            /\ rt_seen' =
                   [t \in DOMAIN rt_seen |->
                       [positive |-> rt_seen[t].positive
                                       \/ (t \in DOMAIN topics_info /\ topics_info[t] > 0),
                        absent |-> rt_seen[t].absent \/ t \notin DOMAIN topics_info]]
            /\ rt_last' = topics_info
            /\ rt_refreshes' = rt_refreshes + 1

RtOnly == UNCHANGED <<upVars, isoVars, asVars, trVars, mrVars, mcVars, pmVars, ndVars,
                      mlVars, shVars, nuKept, clVars, stopVars, lateVars>>

\* the Start and Stop buttons, the Topic Monitor and the rate timer
RtNext ==
    \/ /\ RecOnly
       /\ start_btn
       /\ next_pid <= 1
       /\ start_recording("button", NoRobot, TRUE)
    \/ /\ RecOnly
       /\ stop_btn
       /\ stop_recording("button")
    \/ RtOnly /\ \E selection \in Selections : RtSelect(selection)
    \/ RtOnly /\ UNCHANGED recVars
         /\ \E topics_info \in TopicsInfos : update_topic_rates(topics_info)

----------------------------------------------------------------------------
(***************************************************************************)
(* Auto-upload of finished recordings: the shell's network manager, the    *)
(* Upload panel's check box and the stop of a recording.                   *)
(***************************************************************************)
\* MainWindow.init_network_manager: NetworkManager() and start(), or None
\* when either raises
init_network_manager(ok) ==
    /\ network_manager' = ok
    /\ UNCHANGED <<auto_upload_check, bag_on_disk, stopVars>>

\* the operator ticks or clears "Auto-upload completed recordings"
SetAutoUpload(checked) ==
    /\ auto_upload_check' = checked
    /\ UNCHANGED <<network_manager, bag_on_disk, stopVars>>

\* the capture of the session is written to disk, or is not there
SetBagOnDisk(exists) ==
    /\ bag_on_disk' = exists
    /\ UNCHANGED <<network_manager, auto_upload_check, stopVars>>

NuOnly == UNCHANGED <<coreVars, mrVars, mcVars, pmVars, ndVars, mlVars, shVars, rtVars,
                      clVars, lateVars>>

\* the Start and Stop buttons, the manager's start-up, the check box and the
\* disk
NuNext ==
    \/ /\ RecOnly
       /\ start_btn
       /\ next_pid <= MaxStarts
       /\ start_recording("button", NoRobot, TRUE)
    \/ /\ RecOnly
       /\ stop_btn
       /\ stop_recording("button")
    \/ NuOnly /\ nu_last = NoStop /\ \E ok \in BOOLEAN : init_network_manager(ok)
    \/ NuOnly /\ \E checked \in BOOLEAN : SetAutoUpload(checked)
    \/ NuOnly /\ \E exists \in BOOLEAN : SetBagOnDisk(exists)

----------------------------------------------------------------------------
(***************************************************************************)
(* The window's close: MainWindow.closeEvent and AsyncROS2Manager.shutdown. *)
(***************************************************************************)
MaxCloses == 2

Replies == {"Yes", "No"}

NoClose == [closes |-> 0, was_recording |-> FALSE, reply |-> "none"]

ClInit ==
    /\ window = "open"
    /\ nm_stopped = FALSE
    /\ cl_last = NoClose

\* a shutdown() that returned at once
waitForNothing(ws) == TRUE

\* QThreadPool.waitForDone(): every queued and running worker has finished.
\* Nothing is ever submitted to the ThreadPoolExecutor, so its
\* shutdown(wait=True) returns at once.
waitForDone(ws) == \A i \in DOMAIN ws : ws[i].pc = "done"

\* closeEvent up to the call of self.async_ros2.shutdown(); reply is the
\* operator's answer to 'Recording is in progress. Do you want to stop and
\* exit?', asked only while the shell's is_recording holds
closeEvent(reply) ==
    /\ window = "open"
    /\ cl_last.closes < MaxCloses
    /\ cl_last' = [closes |-> cl_last.closes + 1, was_recording |-> mw_is_recording,
                   reply |-> IF mw_is_recording THEN reply ELSE "none"]
    /\ IF mw_is_recording
       THEN IF reply = "Yes"
            THEN /\ ros2_stop_recording
                 /\ nm_stopped' = (nm_stopped \/ network_manager)
                 /\ window' = "draining"
            ELSE \* event.ignore()
                 UNCHANGED <<recording_process, rec_procs, nm_stopped, window>>
       ELSE /\ nm_stopped' = (nm_stopped \/ network_manager)
            /\ window' = "draining"
            /\ UNCHANGED <<recording_process, rec_procs>>

\* AsyncROS2Manager.shutdown() returns, then event.accept()
shutdown ==
    /\ window = "draining"
    /\ waitForDone(workers)
    /\ window' = "closed"
    /\ UNCHANGED <<recording_process, rec_procs, nm_stopped, cl_last>>

ClOnly == UNCHANGED <<upVars, panelVars, next_pid, isoVars, asVars, trVars, mrVars,
                      mcVars, pmVars, ndVars, mlVars, shVars, rtVars, nuKept, stopVars,
                      lateVars>>

\* the UI thread serves the operator and the queued signals while the window
\* is open; the pool's threads run whether it is or is inside shutdown()
ClNext ==
    \/ /\ window = "open"
       /\ RecOnly
       /\ start_btn
       /\ next_pid <= 1
       /\ start_recording("button", NoRobot, TRUE)
    \/ /\ window = "open"
       /\ RecOnly
       /\ stop_btn
       /\ stop_recording("button")
    \/ /\ window = "open"
       /\ NuOnly
       /\ nu_last = NoStop
       /\ \E ok \in BOOLEAN : init_network_manager(ok)
    \/ window = "open" /\ AsOnly /\ \E key \in {"topics", "nodes"} : get_async(key)
    \/ AsOnly /\ \E i \in DOMAIN workers : WorkerStore(i, "r1")
    \/ AsOnly /\ \E i \in DOMAIN workers : WorkerEmit(i)
    \/ AsOnly /\ \E i \in DOMAIN workers : WorkerEmitError(i)
    \/ window = "open" /\ AsOnly /\ UiDeliver
    \/ ClOnly /\ \E reply \in Replies : closeEvent(reply)
    \/ ClOnly /\ shutdown

----------------------------------------------------------------------------
(***************************************************************************)
(* The cache lock (AsyncROS2Manager._lock, a threading.Lock) and callbacks *)
(* that issue a request of their own.  A worker holds the lock only inside *)
(* the one step of its cache write; the UI thread holds it for as long as  *)
(* a callback called from the cached branch runs.                          *)
(***************************************************************************)
LkInit ==
    /\ as_lock = "free"
    /\ ui_pc = "idle"

\* get_<key>_async(callback) called from the UI thread's event loop: the
\* cached branch calls callback under `with self._lock`
LkGet(key) ==
    /\ ui_pc = "idle"
    /\ as_lock = "free"
    /\ get_async(key)
    /\ IF _is_cached(key)
       THEN /\ as_lock' = "ui"
            /\ ui_pc' = "cached_callback"
       ELSE UNCHANGED lkVars

\* the running callback calls get_<key>_async(inner): _is_cached enters
\* `with self._lock`, which never returns when this thread holds the lock;
\* otherwise the request is issued, inner (which issues nothing) has run if
\* the entry is fresh, and the callback returns
LkCallbackIssues(key) ==
    /\ ui_pc \in {"cached_callback", "worker_callback"}
    /\ IF as_lock = "ui"
       THEN /\ ui_pc' = "deadlock"
            /\ UNCHANGED <<as_lock, asVars>>
       ELSE /\ get_async(key)
            /\ ui_pc' = "idle"
            /\ UNCHANGED as_lock

\* the running callback returns without a request of its own
LkCallbackReturns ==
    /\ ui_pc \in {"cached_callback", "worker_callback"}
    /\ ui_pc' = "idle"
    /\ as_lock' = "free"
    /\ UNCHANGED asVars

\* the event loop takes a worker's signal: result runs the callback, without
\* the lock; error runs _handle_error
LkDeliver ==
    /\ ui_pc = "idle"
    /\ UiDeliver
    /\ ui_pc' = IF Head(ui_queue).kind = "result" THEN "worker_callback" ELSE "idle"
    /\ UNCHANGED as_lock

\* _wrapper's `with self._lock` waits while the UI thread holds the lock
LkWorkerStore(i, result) ==
    /\ as_lock = "free"
    /\ WorkerStore(i, result)
    /\ UNCHANGED lkVars

LkOnly == UNCHANGED <<oldVars, tkVars, pbVars, echoVars, plVars, hvVars>>

LkNext ==
    \/ LkOnly /\ \E key \in {"topics", "nodes"} : LkGet(key)
    \/ LkOnly /\ \E key \in {"topics", "nodes"} : LkCallbackIssues(key)
    \/ LkOnly /\ LkCallbackReturns
    \/ LkOnly /\ LkDeliver
    \/ LkOnly /\ \E i \in DOMAIN workers : LkWorkerStore(i, "r1")
    \/ LkOnly /\ UNCHANGED lkVars /\ \E i \in DOMAIN workers : WorkerEmit(i)
    \/ LkOnly /\ UNCHANGED lkVars /\ \E i \in DOMAIN workers : WorkerEmitError(i)
    \/ LkOnly /\ UNCHANGED lkVars /\ AsTick

----------------------------------------------------------------------------
(***************************************************************************)
(* The trigger classes one by one (src/core/recording_triggers.py): one    *)
(* trigger object, constructed as any of the seven kinds, checked against  *)
(* what it observes, reset, enabled and disabled while time passes.        *)
(***************************************************************************)
MaxTkClock == 7

Size == "SizeTrigger"

TopicDisappears == "TopicDisappearsTrigger"

Scheduled == "ScheduledTrigger"

TriggerKinds == Triggers \cup {Size, TopicDisappears, Scheduled}

\* TopicDisappearsTrigger(topic_name, grace_period_sec=5)
grace_period == 5

\* ScheduledTrigger(start_time, duration_seconds): the configured start
start_time == 2

\* duration_seconds: None, or a number of seconds
Durations == {0, 2}

\* what one check observes: whether the topic (matching the pattern, or the
\* named one) is live, and the metric the trigger reads
TkObservations == [topic : BOOLEAN, value : MetricValues]

\* RecordingTrigger.__init__ and the subclass's __init__
NewTrigger(kind, duration) ==
    [kind |-> kind, enabled |-> TRUE, activated |-> FALSE, last_seen |-> Never,
     recording_started |-> Never, duration |-> duration]

\* RecordingTrigger.reset(): no subclass overrides it
TriggerReset(self) == [self EXCEPT !.activated = FALSE]

CheckResult(ret, self, signal) == [ret |-> ret, self |-> self, signal |-> signal]

\* the tail all checks share: if not self.activated: set it and emit; return True
Activate(self) ==
    IF ~self.activated
    THEN CheckResult(TRUE, [self EXCEPT !.activated = TRUE], "trigger_activated")
    ELSE CheckResult(TRUE, self, "none")

\* TopicAppearsTrigger.check, DiskSpaceTrigger.check, DurationTrigger.check,
\* SizeTrigger.check: matches is the for loop's match / the threshold test
LatchTrigger_check(matches, self) ==
    IF ~self.enabled THEN CheckResult(FALSE, self, "none")
    ELSE IF matches THEN Activate(self)
    ELSE CheckResult(FALSE, self, "none")

\* a check that leaves last_seen alone when it sees the topic
KeepLastSeen(self, now) == self

\* self.last_seen = datetime.now() (line 180)
SetLastSeen(self, now) == [self EXCEPT !.last_seen = now]

\* TopicDisappearsTrigger.check
TopicDisappearsTrigger_check(present, self, now) ==
    IF ~self.enabled THEN CheckResult(FALSE, self, "none")
    ELSE IF present
    THEN CheckResult(FALSE, SetLastSeen(self, now), "none")
    ELSE LET s1 == IF self.last_seen = Never
                   THEN [self EXCEPT !.last_seen = now] ELSE self
             time_missing == now - s1.last_seen
         IN  IF time_missing >= grace_period
             THEN Activate(s1)
             ELSE CheckResult(FALSE, s1, "none")

\* ScheduledTrigger.check
ScheduledTrigger_check(self, now) ==
    IF ~self.enabled THEN CheckResult(FALSE, self, "none")
    ELSE IF now >= start_time /\ self.recording_started = Never
    THEN Activate([self EXCEPT !.recording_started = now])
    ELSE IF /\ self.duration # 0
            /\ self.recording_started # Never
            /\ now - self.recording_started >= self.duration
    THEN CheckResult(FALSE, self, "trigger_deactivated")
    ELSE CheckResult(self.recording_started # Never, self, "none")

\* <kind>.check(ros2_manager, metrics) at time now
KindCheck(self, obs, now) ==
    CASE self.kind = MessageRate ->
            LET r == MessageRateTrigger_check(obs.value,
                         [enabled |-> self.enabled, activated |-> self.activated,
                          threshold |-> threshold])
            IN  CheckResult(r.ret, [self EXCEPT !.activated = r.self.activated],
                            r.signal)
      [] self.kind = TopicAppears -> LatchTrigger_check(obs.topic, self)
      [] self.kind \in {DiskSpace, Duration, Size} ->
            LatchTrigger_check(obs.value >= threshold, self)
      [] self.kind = TopicDisappears ->
            TopicDisappearsTrigger_check(obs.topic, self, now)
      [] self.kind = Scheduled -> ScheduledTrigger_check(self, now)

\* the condition the kind is documented to trigger on: a matching topic, a
\* metric at or above the threshold, the named topic missing since a check
\* at least the grace period ago, the scheduled time reached (and the
\* scheduled duration, if any, not over)
KindCondition(self, obs, now) ==
    CASE self.kind = TopicAppears -> obs.topic
      [] self.kind \in {MessageRate, DiskSpace, Duration, Size} -> obs.value >= threshold
      [] self.kind = TopicDisappears ->
            ~obs.topic /\ self.last_seen # Never /\ now - self.last_seen >= grace_period
      [] self.kind = Scheduled ->
            now >= start_time /\ (self.duration = 0 \/ now < start_time + self.duration)

\* nothing has been checked yet
NoCheck ==
    [op |-> "none", enabled |-> TRUE, topic |-> FALSE, cond |-> FALSE,
     fresh |-> TRUE, ret |-> FALSE, signal |-> "none", span |-> 0]

\* what is remembered of the checks: the time of the first enabled check
\* and of the latest enabled check that saw the topic, whether a check has
\* found the condition since the construction or the last reset, and the
\* latest call
NoHistory == [first_check |-> Never, last_present |-> Never, fresh |-> TRUE,
              last |-> NoCheck]

TkInit ==
    /\ tk_now = 0
    /\ tk_self = NewTrigger(TopicAppears, 0)
    /\ tk_hist = NoHistory

\* the start of the span the latest observations cover: the latest check
\* that saw the topic, the first check if none did, now if none was made
SpanStart(hist, now) ==
    IF hist.last_present # Never THEN hist.last_present
    ELSE IF hist.first_check # Never THEN hist.first_check
    ELSE now

\* a trigger of the kind is constructed
TkNew(kind, duration) ==
    /\ tk_self' = NewTrigger(kind, duration)
    /\ tk_hist' = NoHistory
    /\ UNCHANGED tk_now

\* trigger.check(ros2_manager, metrics)
TkCheck(obs) ==
    /\ LET r == KindCheck(tk_self, obs, tk_now)
           cond == KindCondition(tk_self, obs, tk_now)
       IN
       /\ tk_self' = r.self
       /\ tk_hist' =
            IF ~tk_self.enabled
            THEN [tk_hist EXCEPT !.last = [NoCheck EXCEPT !.op = "check",
                                                         !.enabled = FALSE]]
            ELSE [first_check |-> IF tk_hist.first_check = Never
                                  THEN tk_now ELSE tk_hist.first_check,
                  last_present |-> IF obs.topic THEN tk_now ELSE tk_hist.last_present,
                  fresh |-> tk_hist.fresh /\ ~cond,
                  last |-> [op |-> "check", enabled |-> TRUE, topic |-> obs.topic,
                            cond |-> cond, fresh |-> tk_hist.fresh, ret |-> r.ret,
                            signal |-> r.signal,
                            span |-> tk_now - SpanStart(tk_hist, tk_now)]]
    /\ UNCHANGED tk_now

\* trigger.reset()
TkReset ==
    /\ tk_self' = TriggerReset(tk_self)
    /\ tk_hist' = [tk_hist EXCEPT !.fresh = TRUE, !.last = [NoCheck EXCEPT !.op = "reset"]]
    /\ UNCHANGED tk_now

\* trigger.enabled = value
TkSetEnabled(value) ==
    /\ tk_self' = [tk_self EXCEPT !.enabled = value]
    /\ UNCHANGED <<tk_now, tk_hist>>

TkTick ==
    /\ tk_now < MaxTkClock
    /\ tk_now' = tk_now + 1
    /\ UNCHANGED <<tk_self, tk_hist>>

TkOnly == UNCHANGED <<oldVars, asVars, lkVars, pbVars, echoVars, plVars, hvVars>>

TkNext ==
    \/ TkOnly /\ tk_now = 0 /\ \E kind \in TriggerKinds, duration \in Durations :
                                  TkNew(kind, IF kind = Scheduled THEN duration ELSE 0)
    \/ TkOnly /\ \E obs \in TkObservations : TkCheck(obs)
    \/ TkOnly /\ TkReset
    \/ TkOnly /\ \E value \in BOOLEAN : TkSetEnabled(value)
    \/ TkOnly /\ TkTick

----------------------------------------------------------------------------
(***************************************************************************)
(* The pre-buffer of SmartRecordingManager: monitoring cycles with         *)
(* pre-buffering switched on and off, a start- and a stop-trigger          *)
(* configured so that the cycles run in both recording states.             *)
(***************************************************************************)
MaxCycles == 103

\* the cycles up to which monitoring and pre-buffering are switched
SwitchCycles == 2

PbInit ==
    /\ pb_cycles = 0
    /\ pb_log = <<>>

\* what cycle n observes: the topic is live in two cycles of three, the
\* duration is at the threshold in every second cycle
ObservedAt(n) ==
    [topic |-> n % 3 # 0, message_rate |-> 0,
     duration |-> IF n % 2 = 0 THEN threshold ELSE 0, disk_usage_percent |-> 0,
     timestamp |-> n]

\* one timeout of monitor_timer
PbCycle ==
    /\ pb_cycles < MaxCycles
    /\ pb_cycles' = pb_cycles + 1
    /\ check_triggers(ObservedAt(pb_cycles + 1))
    /\ pb_log' = IF monitoring_enabled /\ pre_buffer_enabled
                 THEN Append(pb_log, Snapshot(ObservedAt(pb_cycles + 1)))
                 ELSE pb_log

TrKept == <<start_triggers, stop_triggers, enabled, activated, monitoring_enabled,
            recording_active, last_cycle>>

\* enable_pre_buffering(duration_seconds)
enable_pre_buffering ==
    /\ pre_buffer_enabled' = TRUE
    /\ UNCHANGED <<TrKept, pre_buffer_data, pbVars>>

\* disable_pre_buffering()
disable_pre_buffering ==
    /\ pre_buffer_enabled' = FALSE
    /\ pre_buffer_data' = <<>>
    /\ pb_log' = <<>>
    /\ UNCHANGED <<TrKept, pb_cycles>>

PbOnly == UNCHANGED <<upVars, recVars, isoVars, mrVars, mcVars, pmVars, ndVars, mlVars,
                      shVars, rtVars, nuKept, clVars, stopVars, asVars, lkVars, tkVars,
                      echoVars, plVars, hvVars>>

PbNext ==
    \/ PbOnly /\ PbCycle
    \/ PbOnly /\ pb_cycles = 0 /\ add_start_trigger(TopicAppears) /\ UNCHANGED pbVars
    \/ PbOnly /\ pb_cycles = 0 /\ add_stop_trigger(Duration) /\ UNCHANGED pbVars
    \/ PbOnly /\ pb_cycles <= SwitchCycles /\ start_monitoring /\ UNCHANGED pbVars
    \/ PbOnly /\ pb_cycles <= SwitchCycles /\ stop_monitoring /\ UNCHANGED pbVars
    \/ PbOnly /\ pb_cycles <= SwitchCycles /\ enable_pre_buffering
    \/ PbOnly /\ pb_cycles <= SwitchCycles /\ disable_pre_buffering
    \/ PbOnly /\ reset_all_triggers /\ UNCHANGED pbVars

----------------------------------------------------------------------------
(***************************************************************************)
(* The topic echo console (src/gui/topic_echo.py): the widget on the UI    *)
(* thread, one `ros2 topic echo` child and one reader thread per session.  *)
(* The reader's signals reach the widget through the UI thread's event     *)
(* queue; a session's reader carries the pid of the session's child.       *)
(***************************************************************************)
MaxEchoStarts == 1

MaxEchoSessions == 2

MaxLines == 2

MaxCap == 2

\* self.echo_process.wait(timeout=2)
echo_grace == 2

\* '---', as a sequence of characters
Separator == <<"-", "-", "-">>

\* the lines `ros2 topic echo` prints, each with its line terminator: the
\* separator after a message, and a line of a message
Lines == {<<"-", "-", "-", "\n">>, <<"d", ":", " ", "1", "\n">>}

Whitespace == {" ", "\t", "\n", "\r"}

RECURSIVE rstrip(_)
\* str.rstrip()
rstrip(line) ==
    IF line # <<>> /\ line[Len(line)] \in Whitespace
    THEN rstrip(SubSeq(line, 1, Len(line) - 1))
    ELSE line

RECURSIVE lstrip(_)
\* str.lstrip()
lstrip(line) ==
    IF line # <<>> /\ Head(line) \in Whitespace THEN lstrip(Tail(line)) ELSE line

\* str.strip()
strip(line) == lstrip(rstrip(line))

\* a reader that counts every line
CountsAll(line) == TRUE

\* if line.strip() == '---'
Counts(line) == strip(line) = Separator

\* if msg_count >= self.max_messages
CapReached(msg_count, max_messages) == msg_count >= max_messages

\* seconds a child takes to exit after SIGTERM
ExitDelays == {1, 3}

\* nothing of a reader has reached the console
NoOutput == [separators |-> 0, late |-> FALSE]

\* append_message(message) for a line of a reader with the cap max: the line
\* is late when the cap-th separator of its reader is on the console already
Appended(out, kind, text, max) ==
    IF kind = "banner"
    THEN out
    ELSE [separators |-> IF strip(text) = Separator THEN out.separators + 1
                         ELSE out.separators,
          late |-> out.late \/ out.separators >= max]

NoEchoStop ==
    [cause |-> "none", from |-> NoProcess, session |-> NoProcess, was_echoing |-> FALSE,
     stopped |-> NoProcess, terminated |-> FALSE, killed |-> FALSE, delay |-> 0]

EchoInit ==
    /\ is_echoing = FALSE
    /\ echo_process = NoProcess
    /\ echo_reader = NoProcess
    /\ echo_procs = EmptyMap
    /\ echo_readers = EmptyMap
    /\ echo_events = <<>>
    /\ echo_output = EmptyMap
    /\ echo_last = NoEchoStop

\* the child has exited by the end of wait(timeout): no TimeoutExpired
ExitsWithin(delay, timeout) == delay # Never /\ delay < timeout

\* a stop that kills whatever the child does
KillsAlways(delay, timeout) == TRUE

\* except: self.echo_process.kill() / self.playback_process.kill()
Kills(delay, timeout) == ~ExitsWithin(delay, timeout)

\* TopicEchoWidget.start_echo with a topic selected and Popen succeeding
start_echo(max_msgs) ==
    /\ ~is_echoing
    /\ LET pid == Cardinality(DOMAIN echo_procs) + 1 IN
       /\ echo_process' = pid
       /\ echo_procs' = Put(echo_procs, pid, "running")
       /\ is_echoing' = TRUE
       /\ echo_reader' = pid
       /\ echo_readers' = Put(echo_readers, pid,
                              [max_messages |-> max_msgs, is_running |-> TRUE,
                               msg_count |-> 0, lines |-> 0, pc |-> "reading"])
       /\ echo_output' = Put(echo_output, pid, NoOutput)
    /\ UNCHANGED <<echo_events, echo_last>>

\* TopicEchoWidget.stop_echo; cause and from say who called it, delay is how
\* the child answers terminate()
stop_echo(cause, from, delay) ==
    /\ is_echoing' = FALSE
    /\ echo_readers' = IF echo_reader # NoProcess
                       THEN [echo_readers EXCEPT ![echo_reader].is_running = FALSE]
                       ELSE echo_readers
    /\ echo_reader' = NoProcess
    /\ echo_procs' = IF echo_process # NoProcess
                     THEN [echo_procs EXCEPT ![echo_process] = "ended"]
                     ELSE echo_procs
    /\ echo_process' = NoProcess
    /\ echo_last' = [cause |-> cause, from |-> from, session |-> echo_reader,
                     was_echoing |-> is_echoing, stopped |-> echo_process,
                     terminated |-> echo_process # NoProcess,
                     killed |-> /\ echo_process # NoProcess
                                /\ echo_procs[echo_process] = "running"
                                /\ Kills(delay, echo_grace),
                     delay |-> IF /\ echo_process # NoProcess
                                  /\ echo_procs[echo_process] = "running"
                               THEN delay ELSE 0]

Emit(kind, r, text) == [kind |-> kind, reader |-> r, text |-> text]

\* EchoReader.read_output: one turn of `for line in self.process.stdout`
ReaderLine(r, line) ==
    /\ echo_readers[r].pc = "reading"
    /\ echo_procs[r] = "running"
    /\ echo_readers[r].lines < MaxLines
    /\ LET self == echo_readers[r]
           counted == IF Counts(line) THEN self.msg_count + 1 ELSE self.msg_count
           capped == Counts(line) /\ CapReached(counted, self.max_messages)
       IN
       IF ~self.is_running
       THEN /\ echo_readers' = [echo_readers EXCEPT ![r].pc = "finally"]
            /\ UNCHANGED echo_events
       ELSE /\ echo_readers' = [echo_readers EXCEPT
                   ![r].lines = self.lines + 1,
                   ![r].msg_count = counted,
                   ![r].pc = IF capped THEN "finally" ELSE "reading"]
            /\ echo_events' =
                  IF capped
                  THEN echo_events \o <<Emit("message", r, rstrip(line)),
                                        Emit("banner", r, <<>>),
                                        Emit("finished", r, <<>>)>>
                  ELSE Append(echo_events, Emit("message", r, rstrip(line)))
    /\ UNCHANGED <<is_echoing, echo_process, echo_reader, echo_procs, echo_output,
                   echo_last>>

\* the child's stdout is at its end: the for loop is over
ReaderEof(r) ==
    /\ echo_readers[r].pc = "reading"
    /\ echo_procs[r] # "running"
    /\ echo_readers' = [echo_readers EXCEPT ![r].pc = "finally"]
    /\ UNCHANGED <<is_echoing, echo_process, echo_reader, echo_procs, echo_events,
                   echo_output, echo_last>>

\* finally: self.echo_finished.emit()
ReaderFinally(r) ==
    /\ echo_readers[r].pc = "finally"
    /\ echo_readers' = [echo_readers EXCEPT ![r].pc = "done"]
    /\ echo_events' = Append(echo_events, Emit("finished", r, <<>>))
    /\ UNCHANGED <<is_echoing, echo_process, echo_reader, echo_procs, echo_output,
                   echo_last>>

\* the child ends by itself
ChildExits(pid) ==
    /\ echo_procs[pid] = "running"
    /\ echo_procs' = [echo_procs EXCEPT ![pid] = "ended"]
    /\ UNCHANGED <<is_echoing, echo_process, echo_reader, echo_readers, echo_events,
                   echo_output, echo_last>>

\* the UI thread takes the next queued signal: append_message or stop_echo
EchoDeliver(delay) ==
    /\ echo_events # <<>>
    /\ echo_events' = Tail(echo_events)
    /\ LET e == Head(echo_events) IN
       IF e.kind # "finished"
       THEN /\ echo_output' = [echo_output EXCEPT ![e.reader] =
                    Appended(@, e.kind, e.text, echo_readers[e.reader].max_messages)]
            /\ UNCHANGED <<is_echoing, echo_process, echo_reader, echo_procs,
                           echo_readers, echo_last>>
       ELSE /\ stop_echo("finished", e.reader, delay)
            /\ UNCHANGED echo_output

\* the operator presses Stop Echo
EchoStopButton(delay) ==
    /\ is_echoing
    /\ stop_echo("operator", NoProcess, delay)
    /\ UNCHANGED <<echo_events, echo_output>>

EchoOnly == UNCHANGED <<oldVars, asVars, lkVars, tkVars, pbVars, plVars, hvVars>>

EchoNext ==
    \/ /\ EchoOnly
       /\ Cardinality(DOMAIN echo_procs) < MaxEchoStarts
       /\ \E max_msgs \in 1..MaxCap : start_echo(max_msgs)
    \/ EchoOnly /\ \E delay \in ExitDelays : EchoStopButton(delay)
    \/ EchoOnly /\ \E r \in DOMAIN echo_readers, line \in Lines : ReaderLine(r, line)
    \/ EchoOnly /\ \E r \in DOMAIN echo_readers : ReaderEof(r)
    \/ EchoOnly /\ \E r \in DOMAIN echo_readers : ReaderFinally(r)
    \/ EchoOnly /\ \E pid \in DOMAIN echo_procs : ChildExits(pid)
    \/ EchoOnly /\ \E delay \in ExitDelays : EchoDeliver(delay)

\* the console with a later session after an earlier one
SessionsNext ==
    \/ /\ EchoOnly
       /\ Cardinality(DOMAIN echo_procs) < MaxEchoSessions
       /\ \E max_msgs \in 1..MaxCap : start_echo(max_msgs)
    \/ EchoOnly /\ \E delay \in ExitDelays : EchoStopButton(delay)
    \/ EchoOnly /\ \E r \in DOMAIN echo_readers, line \in Lines : ReaderLine(r, line)
    \/ EchoOnly /\ \E r \in DOMAIN echo_readers : ReaderEof(r)
    \/ EchoOnly /\ \E r \in DOMAIN echo_readers : ReaderFinally(r)
    \/ EchoOnly /\ \E pid \in DOMAIN echo_procs : ChildExits(pid)
    \/ EchoOnly /\ \E delay \in ExitDelays : EchoDeliver(delay)

----------------------------------------------------------------------------
(***************************************************************************)
(* Bag playback (src/gui/bag_playback.py): the widget and its              *)
(* `ros2 bag play` child.                                                  *)
(***************************************************************************)
\* self.playback_process.wait(timeout=5)
playback_grace == 5

\* the pid of the `ros2 bag play` child
PlaybackPid == 1

\* seconds the child takes to exit after SIGTERM
PlaybackDelays == {3, 6}

NoPlaybackStop == [stopped |-> NoProcess, terminated |-> FALSE, killed |-> FALSE, delay |-> 0]

PlInit ==
    /\ is_playing = FALSE
    /\ playback_process = NoProcess
    /\ pl_last = NoPlaybackStop

\* BagPlaybackWidget.play_bag with a valid bag path and Popen succeeding
play_bag ==
    /\ ~is_playing
    /\ playback_process' = PlaybackPid
    /\ is_playing' = TRUE
    /\ UNCHANGED pl_last

\* BagPlaybackWidget.stop_playback; delay is how the child answers terminate()
stop_playback(delay) ==
    /\ is_playing' = FALSE
    /\ playback_process' = NoProcess
    /\ pl_last' = [stopped |-> playback_process,
                   terminated |-> playback_process # NoProcess,
                   killed |-> playback_process # NoProcess /\ Kills(delay, playback_grace),
                   delay |-> IF playback_process # NoProcess THEN delay ELSE 0]

\* the operator presses Stop, enabled while a bag plays
PlaybackStopButton(delay) ==
    /\ is_playing
    /\ stop_playback(delay)

PlOnly == UNCHANGED <<oldVars, asVars, lkVars, tkVars, pbVars, echoVars, hvVars>>

\* the two widgets that stop a child process
StopNext ==
    \/ PlOnly /\ play_bag
    \/ PlOnly /\ \E delay \in PlaybackDelays : PlaybackStopButton(delay)
    \/ /\ EchoOnly
       /\ Cardinality(DOMAIN echo_procs) < MaxEchoStarts
       /\ start_echo(MaxCap)
    \/ EchoOnly /\ \E delay \in ExitDelays : EchoStopButton(delay)
    \/ EchoOnly /\ \E r \in DOMAIN echo_readers, line \in Lines : ReaderLine(r, line)
    \/ EchoOnly /\ \E r \in DOMAIN echo_readers : ReaderEof(r)
    \/ EchoOnly /\ \E r \in DOMAIN echo_readers : ReaderFinally(r)
    \/ EchoOnly /\ \E pid \in DOMAIN echo_procs : ChildExits(pid)
    \/ EchoOnly /\ \E delay \in ExitDelays : EchoDeliver(delay)

----------------------------------------------------------------------------
(***************************************************************************)
(* The isolation harness as a judge (src/test_recording_isolation.py):     *)
(* what it reports for each thing a recording facade can show it.          *)
(***************************************************************************)
MaxHarnessChecks == 2

\* the process ids a reading can carry
HarnessPids == {1, 2}

\* what manager.get_recording_health() can return: nothing, or a reading
Readings ==
    {NoHealth} \cup
    {[ok |-> TRUE, pid |-> pid, health_checks |-> n] :
        pid \in HarnessPids, n \in 0..MaxHarnessChecks}

\* what psutil.Process(pid) and is_running() can answer
Inspections == {"running", "not_running", "no_such_process"}

\* test_recording_isolation(): the value it returns, given what
\* start_recording returned, the two readings and the process inspection
test_recording_isolation(success, before, after, inspection) ==
    IF ~success THEN FALSE
    ELSE IF ~after.ok THEN FALSE
    ELSE IF inspection # "running" THEN FALSE
    ELSE TRUE

\* sys.exit(0 if success else 1)
exit_status(success) == IF success THEN 0 ELSE 1

NoRun ==
    [done |-> FALSE, started |-> FALSE, health_before |-> NoHealth,
     health_after |-> NoHealth, inspection |-> "no_such_process", exit |-> 1]

HvInit == hv_run = NoRun

\* one run of the harness, from start_recording to sys.exit
HvRun(success, before, after, inspection) ==
    hv_run' = [done |-> TRUE, started |-> success, health_before |-> before,
               health_after |-> after, inspection |-> inspection,
               exit |-> exit_status(test_recording_isolation(
                            success, before, after, inspection))]

HvOnly == UNCHANGED <<oldVars, asVars, lkVars, tkVars, pbVars, echoVars, plVars>>

HvNext ==
    /\ HvOnly
    /\ \E success \in BOOLEAN, before \in Readings, after \in Readings,
          inspection \in Inspections :
            HvRun(success, before, after, inspection)

----------------------------------------------------------------------------
(***************************************************************************)
(* The shell's adaptive settings (MainWindow): the table in force, the     *)
(* asynchronous layer's settings, and the three timers.                    *)
(***************************************************************************)
MaxModeChanges == 3

Max(a, b) == IF a >= b THEN a ELSE b

\* AsyncROS2Manager.__init__(ros2_manager, max_threads, cache_timeout): the
\* two public attributes, the pool's and the executor's limits, and the
\* private window
AsyncSettings(threads, timeout) ==
    [max_threads |-> threads, cache_timeout |-> timeout,
     threadpool_max |-> threads, executor_max |-> threads,
     _cache_timeout |-> timeout]

\* the window _is_cached compares a cache entry's age with
FreshnessWindow(a) == a._cache_timeout

\* the limit the worker pool runs under: threadpool.setMaxThreadCount
ThreadLimit(a) == a.threadpool_max

\* MainWindow.setup_timers(): the intervals the three timers are started with
setup_timers(perf) ==
    [ros2_timer |-> Max(3000, perf.ros2_update_interval),
     metrics_timer |-> Max(1000, perf.metrics_update_interval),
     history_timer |-> Max(5000, perf.history_update_interval)]

\* LiveChartsWidget(..., buffer_size, update_interval, auto_pause)
LiveCharts(perf) ==
    [update_interval |-> perf.chart_update_interval,
     buffer_size |-> perf.chart_buffer_size,
     auto_pause |-> perf.chart_auto_pause]

\* MainWindow._ros2_update_cooldown, in seconds
ros2_update_cooldown == 1

\* the tabs a poll is followed on, by index: Topics, Nodes and Topic Echo
Tabs == {0, 1, 3}

\* the query update_ros2_info_async issues for the tab shown
TabKey(current_tab) ==
    CASE current_tab = 0 -> "topics"
      [] current_tab = 1 -> "nodes"
      [] current_tab = 2 -> "services"
      [] OTHER -> NoResult

Poll(visible, current_tab, busy, key) ==
    [visible |-> visible, current_tab |-> current_tab, busy |-> busy, key |-> key]

NoPoll == Poll(FALSE, 0, FALSE, NoResult)

\* AsyncROS2Manager.active_thread_count()
active_thread_count == Cardinality(ActiveThreads(workers))

\* update_ros2_info_async that submits whatever the pool is doing
PollSkipsNever == FALSE

\* update_ros2_info_async: a poll is skipped while a thread of the pool runs
PollSkips == active_thread_count >= 1

\* MainWindow.update_ros2_info_async (the ROS2-info timer's callback)
update_ros2_info_async(visible, current_tab) ==
    LET busy == active_thread_count >= 1 IN
    IF as_clock - last_ros2_update < ros2_update_cooldown
    THEN UNCHANGED <<asVars, pollVars>>
    ELSE /\ last_ros2_update' = as_clock
         /\ IF ~visible \/ PollSkips \/ TabKey(current_tab) = NoResult
            THEN /\ ros2_poll' = Poll(visible, current_tab, busy, NoResult)
                 /\ UNCHANGED <<asVars, poll_tasks>>
            ELSE /\ get_async(TabKey(current_tab))
                 /\ ros2_poll' = Poll(visible, current_tab, busy, TabKey(current_tab))
                 /\ poll_tasks' = IF _is_cached(TabKey(current_tab))
                                  THEN poll_tasks
                                  ELSE poll_tasks \cup {as_calls + 1}

PollOnly == UNCHANGED <<upVars, recVars, isoVars, trVars, mrVars, mcVars, pmVars,
                        ndVars, mlVars, perf_settings, async_ros2, ros2_timer,
                        metrics_timer, history_timer, live_charts, sh_applied,
                        sh_changes, restVars, stopVars>>

\* what a poll finds: the window shown with one of the tabs, or hidden
PollInputs ==
    {<<TRUE, current_tab>> : current_tab \in Tabs} \cup {<<FALSE, 0>>}

\* the polling timer, the Topics tab's own refresh, the workers and the UI
\* thread
PollNext ==
    \/ PollOnly /\ \E in \in PollInputs : update_ros2_info_async(in[1], in[2])
    \/ AsOnly /\ get_async("topics")
    \/ AsOnly /\ \E i \in DOMAIN workers : WorkerStore(i, "r1")
    \/ AsOnly /\ \E i \in DOMAIN workers : WorkerEmit(i)
    \/ AsOnly /\ \E i \in DOMAIN workers : WorkerEmitError(i)
    \/ AsOnly /\ UiDeliver
    \/ AsOnly /\ AsTick

\* MainWindow.__init__: the table of the detected mode, the asynchronous
\* layer built from it, the charts, then setup_timers()
ShInit ==
    /\ perf_settings = get_mode_settings(performance_manager, NoMode)
    /\ async_ros2 = AsyncSettings(perf_settings.max_threads, perf_settings.cache_timeout)
    /\ live_charts = LiveCharts(perf_settings)
    /\ ros2_timer = setup_timers(perf_settings).ros2_timer
    /\ metrics_timer = setup_timers(perf_settings).metrics_timer
    /\ history_timer = setup_timers(perf_settings).history_timer
    /\ sh_applied = NoMode
    /\ sh_changes = 0
    /\ last_ros2_update = Never
    /\ ros2_poll = NoPoll
    /\ poll_tasks = {}

\* MainWindow.on_performance_mode_changed(mode), the manager being self
on_performance_mode_changed(self, mode) ==
    LET perf == get_mode_settings(self, NoMode) IN
    /\ perf_settings' = perf
    /\ async_ros2' = [async_ros2 EXCEPT !.max_threads = perf.max_threads,
                                        !.cache_timeout = perf.cache_timeout]
    /\ metrics_collector' = [metrics_collector EXCEPT
                                !.system_metrics_cache_timeout = perf.system_metrics_cache]
    /\ ros2_timer' = perf.ros2_update_interval
    /\ metrics_timer' = perf.metrics_update_interval
    /\ history_timer' = perf.history_update_interval
    /\ live_charts' = LiveCharts(perf)
    /\ sh_applied' = mode

\* the modes the dialog offers: the CUSTOM button is disabled
DialogModes == {HIGH, BALANCED, LOW}

\* PerformanceSettingsDialog.apply_settings(): set_mode, whose signal reaches
\* the shell when the mode differs, then the dialog's own signal, which
\* reaches it always; the handler's second run repeats the first
\* the mode_changed signals one apply_settings sends to the handler: the
\* manager's, which set_mode emits when the mode changes (connected in
\* setup_timers), and the dialog's own, emitted always (connected in
\* show_performance_settings)
HandlerRuns(selected_mode) ==
    (IF selected_mode # performance_manager.current_mode THEN 1 ELSE 0) + 1

\* PerformanceSettingsDialog.apply_settings, from Apply or from OK; each
\* signal runs the handler, and every run assigns the same values
apply_settings(selected_mode) ==
    /\ sh_changes < MaxModeChanges
    /\ set_mode(selected_mode)
    /\ on_performance_mode_changed(performance_manager', selected_mode)
    /\ sh_changes' = sh_changes + HandlerRuns(selected_mode)
    /\ UNCHANGED <<mc_now, last_metrics_update, mc_resets, mc_hist>>
    /\ UNCHANGED pollVars

ShOnly == UNCHANGED <<coreVars, mrVars, ndVars, mlVars, restVars, stopVars>>

ShNext ==
    \/ ShOnly /\ \E selected_mode \in DialogModes : apply_settings(selected_mode)
    \/ /\ RecOnly
       /\ start_btn
       /\ \E spawn_ok \in SpawnOutcomes : start_recording("button", NoRobot, spawn_ok)
    \/ /\ RecOnly
       /\ stop_btn
       /\ stop_recording("button")

----------------------------------------------------------------------------
LateInit == LkInit /\ TkInit /\ PbInit /\ EchoInit /\ PlInit /\ HvInit

RestInit == RtInit /\ NuInit /\ ClInit /\ LateInit

ExtInit ==
    MrInit /\ McInit /\ PmInit /\ NdInit /\ SensorsInit /\ MlInit /\ ShInit /\ RestInit

Init == UpInit /\ RecInit /\ IsoInit /\ AsInit /\ TrInit /\ ExtInit

SpecRecording == Init /\ [][RecNext]_vars

SpecIsolation == Init /\ [][IsoNext]_vars

SpecAsync == Init /\ [][AsNext]_vars

SpecTriggers == Init /\ [][TrNext]_vars

SpecUpload == Init /\ [][UpNext]_vars

SpecReupload == Init /\ [][ReNext]_vars

SpecMessageRate == Init /\ [][MrNext]_vars

SpecMetrics == Init /\ [][McNext]_vars

\* the performance manager constructed on any host
PerformanceInit ==
    /\ UpInit /\ RecInit /\ IsoInit /\ AsInit /\ TrInit /\ MrInit /\ McInit /\ NdInit
    /\ SensorsInit /\ MlInit
    /\ \E system_info \in SystemInfos : PmInitOn(system_info)
    /\ ShInit /\ RestInit

SpecPerformance == PerformanceInit /\ [][PmNext]_vars

SpecDomains == Init /\ [][NdNext]_vars

\* after a discovery pass that found one robot, with any list of topics
DiscoveredInit ==
    /\ UpInit /\ RecInit /\ IsoInit /\ AsInit /\ TrInit /\ MrInit /\ McInit /\ PmInit
    /\ NdInit /\ MlInit /\ ShInit /\ RestInit
    /\ \E topics \in TopicLists : discovered_robots = [h \in {"robot1"} |-> topics]
    /\ nd_sensors = NoSensors

SpecSensors == DiscoveredInit /\ [][SensorsNext]_vars

SpecExporter == Init /\ [][MlNext]_vars

SpecShell == Init /\ [][ShNext]_vars

SpecPolling == Init /\ [][PollNext]_vars

SpecRates == Init /\ [][RtNext]_vars

SpecAutoUpload == Init /\ [][NuNext]_vars

SpecClose == Init /\ [][ClNext]_vars

SpecLock == Init /\ [][LkNext]_vars

SpecTriggerKinds == Init /\ [][TkNext]_vars

SpecPreBuffer == Init /\ [][PbNext]_vars

SpecEcho == Init /\ [][EchoNext]_vars

SpecEchoSessions == Init /\ [][SessionsNext]_vars

SpecStop == Init /\ [][StopNext]_vars

SpecHarness == Init /\ [][HvNext]_vars

----------------------------------------------------------------------------
(***************************************************************************)
(* Upload server: properties                                               *)
(***************************************************************************)
\* the client's file: the data sent for chunk 0, 1, .., n-1, in that order
RECURSIVE InIndexOrder(_, _)
InIndexOrder(files, n) ==
    IF n = 0 THEN <<>> ELSE InIndexOrder(files, n - 1) \o files[n - 1]

\* the step is a finalize request on a live session
FinalizeStep ==
    /\ up_req'.op = "finalize"
    /\ up_req'.id \in DOMAIN upload_sessions

FinSession == upload_sessions[up_req'.id]

FinFiles == temp_files[up_req'.id]

FinOriginal == InIndexOrder(FinFiles, FinSession.chunks)

\* exactly the chunks 0..N-1 have been received
FinAllReceived == FinSession.received_chunks = 0..(FinSession.chunks - 1)

\* C3: a finalize of a session that received exactly the chunks 0..N-1 (in
\* whatever order), with the MD5 of the original file, answers 200, leaves
\* the completed file equal to the chunks concatenated in index order, and
\* removes the temp chunks, the temp directory and the session.
C3_RoundTrip ==
    [][(/\ FinalizeStep
        /\ FinAllReceived
        /\ up_req'.checksum = calculate_checksum(FinOriginal))
       => (/\ up_resp' = Resp(200, "")
           /\ FinSession.filename \in DOMAIN completed'
           /\ completed'[FinSession.filename] = FinOriginal
           /\ up_req'.id \notin DOMAIN temp_files'
           /\ up_req'.id \notin DOMAIN upload_sessions')]_vars

\* a two-chunk file completed after a verified finalize
C3_Witness ==
    /\ up_req.op = "finalize"
    /\ up_req.checksum # NoChecksum
    /\ up_resp.code = 200
    /\ \E f \in DOMAIN completed :
          completed[f] = ChunkOf(up_req.id, 0) \o ChunkOf(up_req.id, 1)
    /\ up_req.id \notin DOMAIN upload_sessions
    /\ up_req.id \notin DOMAIN temp_files

\* C4: a finalize whose (supplied) checksum differs from the MD5 of the
\* reassembled file answers 400 "Checksum mismatch", leaves no file under the
\* session's filename in the completed directory and writes no sidecar.
C4_WrongChecksum ==
    [][(/\ FinalizeStep
        /\ FinAllReceived
        /\ up_req'.checksum # NoChecksum
        /\ up_req'.checksum # calculate_checksum(FinOriginal))
       => (/\ up_resp' = Resp(400, "Checksum mismatch")
           /\ FinSession.filename \notin DOMAIN completed'
           /\ UNCHANGED sidecars)]_vars

C4_Witness ==
    /\ up_req.op = "finalize"
    /\ up_req.checksum # NoChecksum
    /\ up_resp = Resp(400, "Checksum mismatch")
    /\ up_req.id \in DOMAIN upload_sessions
    /\ upload_sessions[up_req.id].filename \notin DOMAIN completed

\* C5: a finalize of a session that received fewer than N chunks answers 400
\* "Missing chunks", writes nothing to the completed directory and leaves the
\* session and its received chunks as they were.
C5_MissingChunks ==
    [][(/\ FinalizeStep
        /\ Cardinality(FinSession.received_chunks) < FinSession.chunks)
       => (/\ up_resp' = Resp(400, "Missing chunks")
           /\ UNCHANGED <<completed, sidecars, upload_sessions, temp_files>>)]_vars

\* a session with one of its two chunks stored, after a refused finalize
C5_Witness ==
    /\ up_req.op = "finalize"
    /\ up_resp = Resp(400, "Missing chunks")
    /\ up_req.id \in DOMAIN upload_sessions
    /\ upload_sessions[up_req.id].chunks = 2
    /\ upload_sessions[up_req.id].received_chunks = {1}
    /\ DOMAIN temp_files[up_req.id] = {1}

\* what C6 states of a step that takes session id out of the session map;
\* accepted is the set of request checksums the step may carry
SessionLeavesOnlyBy(id, accepted) ==
    id \notin DOMAIN upload_sessions' =>
        /\ up_req' = Req("finalize", id, up_req'.checksum)
        /\ up_resp' = Resp(200, "")
        /\ upload_sessions[id].received_chunks = 0..(upload_sessions[id].chunks - 1)
        /\ up_req'.checksum \in accepted
        /\ upload_sessions[id].filename \in DOMAIN completed'
        /\ completed'[upload_sessions[id].filename] = FinOriginal

\* C6 (as claimed): a session leaves the session map only by a finalize that
\* found all declared chunks received and whose checksum matches the
\* reassembled file.
C6_Original ==
    [][\A id \in DOMAIN upload_sessions :
          SessionLeavesOnlyBy(id, {calculate_checksum(FinOriginal)})]_vars

\* C6 (amended): a session leaves the session map only by a successful
\* finalize, which requires all declared chunks 0..N-1 received and a request
\* checksum that is absent or equal to the MD5 of the reassembled file; the
\* completed file is kept. No init, chunk, status or failed finalize request
\* removes a session.
C6_SessionLifetime ==
    [][\A id \in DOMAIN upload_sessions :
          SessionLeavesOnlyBy(id, {NoChecksum, calculate_checksum(FinOriginal)})]_vars

\* one session completed without a checksum, the other one still in the map
C6_Witness ==
    /\ up_req.op = "finalize"
    /\ up_req.checksum = NoChecksum
    /\ up_resp = Resp(200, "")
    /\ next_upload_id > MaxSessions
    /\ Cardinality(DOMAIN upload_sessions) = MaxSessions - 1

----------------------------------------------------------------------------
\* C1: a start_recording issued while a session is active fails and creates
\* no second recording process; at most one record process runs at any time.
C1_SingleSession ==
    /\ Cardinality(rec_procs) <= 1
    /\ (rec_req.call = "start" /\ rec_req.reached_facade /\ rec_req.active_before
        => ~rec_req.success /\ rec_procs = rec_req.procs_before)

\* a robot-workflow start was issued during a recording and was refused
C1_Witness ==
    /\ rec_req.op = "robot"
    /\ rec_req.reached_facade
    /\ rec_req.active_before
    /\ ~rec_req.success
    /\ Cardinality(rec_procs) = 1
    /\ rc_is_recording

----------------------------------------------------------------------------
----------------------------------------------------------------------------
\* a get_<key>_async call is issued
CallStep(key) == as_calls' = as_calls + 1 /\ as_last'.key = key

\* C7: a get_topics_async call issued less than cache_timeout after the
\* previous one resolves from the cache and starts no worker (no further
\* invocation of the Facade); one issued cache_timeout or more after the
\* previous one misses the cache and invokes the Facade again.
C7_Original ==
    [][(CallStep("topics") /\ last_issued["topics"] # Never) =>
          IF as_clock - last_issued["topics"] < cache_timeout
          THEN as_last'.hit /\ workers' = workers
          ELSE ~as_last'.hit /\ DOMAIN workers' # DOMAIN workers]_vars

\* C8: whenever the UI thread fires the completion callback of a worker,
\* that worker has already written its result and timestamp into the cache.
C8_StoreBeforeCallback ==
    /\ (cb_fired.kind = "result" => cb_fired.stored)
    /\ \A k \in 1..Len(ui_queue) :
          ui_queue[k].kind = "result" => workers[ui_queue[k].task].stored

\* a completion callback has fired while another worker is still running
C8_Witness ==
    /\ cb_fired.kind = "result"
    /\ cb_fired.stored
    /\ \E i \in DOMAIN workers : workers[i].pc = "running"

----------------------------------------------------------------------------
\* the list a cycle has to walk
CycleList == IF last_cycle.was_recording THEN last_cycle.stop ELSE last_cycle.start

\* C9: a check_triggers cycle with monitoring enabled checks only the
\* start-triggers while not recording and only the stop-triggers while
\* recording, in list order, and stops at the first trigger that fires.
C9_FirstMatchOnly ==
    last_cycle.ran =>
        LET n == Len(last_cycle.checked) IN
        /\ n <= Len(CycleList)
        /\ last_cycle.checked = SubSeq(CycleList, 1, n)
        /\ Len(last_cycle.results) = n
        /\ \A k \in 1..(n - 1) : ~last_cycle.results[k]
        /\ (n < Len(CycleList) => n >= 1 /\ last_cycle.results[n])

\* the first of two start-triggers fired and the second was not checked
C9_Witness ==
    /\ last_cycle.ran
    /\ ~last_cycle.was_recording
    /\ Len(last_cycle.start) = 2
    /\ last_cycle.checked = <<last_cycle.start[1]>>
    /\ last_cycle.results = <<TRUE>>

\* C10: whenever a check_triggers cycle finds a start-trigger whose condition
\* matches while not recording, it raises an auto-start request, and whenever
\* it finds a matching stop-trigger while recording, an auto-stop request.
C10_Original ==
    (last_cycle.ran /\ \E k \in 1..Len(last_cycle.results) : last_cycle.results[k]) =>
        IF last_cycle.was_recording
        THEN last_cycle.events = <<"auto_stop_requested">>
        ELSE last_cycle.events = <<"auto_start_requested">>

----------------------------------------------------------------------------
\* the k-th rate fed is at or above the threshold (before the first rate
\* the trigger counts as below: it is constructed with activated = False)
FedAbove(k) == k >= 1 /\ mr_fed[k].rate >= rate_threshold

FedSignals == [k \in 1..Len(mr_fed) |-> mr_fed[k].signal]

FedRates == [k \in 1..Len(mr_fed) |-> mr_fed[k].rate]

\* C11: a MessageRateTrigger that stays enabled and is fed a sequence of
\* rates emits trigger_activated exactly on each step from below the
\* threshold to at or above it, trigger_deactivated exactly on each step
\* back below it, and nothing while the rate stays on one side; for the
\* rates 0, 6, 6, 2 and threshold 5 that is one activation and one
\* deactivation.
C11_EdgeDetection ==
    mr_plain =>
        /\ \A k \in 1..Len(mr_fed) :
               mr_fed[k].signal =
                   IF ~FedAbove(k - 1) /\ FedAbove(k) THEN "trigger_activated"
                   ELSE IF FedAbove(k - 1) /\ ~FedAbove(k) THEN "trigger_deactivated"
                   ELSE "none"
        /\ (rate_threshold = 5 /\ FedRates = <<0, 6, 6, 2>>
               => FedSignals = <<"none", "trigger_activated", "none",
                                 "trigger_deactivated">>)

C11_Witness ==
    /\ mr_plain
    /\ FedRates = <<0, 6, 6, 2>>
    /\ Cardinality({k \in 1..4 : mr_fed[k].signal = "trigger_activated"}) = 1
    /\ Cardinality({k \in 1..4 : mr_fed[k].signal = "trigger_deactivated"}) = 1

----------------------------------------------------------------------------
\* the record processes spawned so far, one per RecordingSession that started
SessionsStarted == next_pid - 1

\* C12: reset() is invoked exactly once for each RecordingSession that
\* starts, and not for a start that is refused or fails; and right after
\* any reset() every field of the metrics snapshot, duration included, is
\* zero.
C12_ResetPerSession ==
    /\ [](mc_resets = SessionsStarted)
    /\ [][mc_resets' # mc_resets
            => /\ mc_resets' = mc_resets + 1
               /\ rec_req'.call = "start" /\ rec_req'.success
               /\ metrics_collector'.metrics = ZeroMetrics
               /\ metrics_collector'.metrics.duration = 0]_vars

C12_Witness ==
    /\ mc_resets = 2
    /\ SessionsStarted = 2
    /\ rec_req.call = "start" /\ rec_req.success
    /\ last_metrics_update > 0
    /\ metrics_collector.metrics = ZeroMetrics
    /\ metrics_collector.start_time = mc_now

----------------------------------------------------------------------------
\* the k-th update() since the last reset() found the capture directory
Observed(k) == k >= 1 /\ k <= Len(mc_hist) /\ mc_hist[k].dir.exists

----------------------------------------------------------------------------
\* C14: the auto-detected mode is HIGH exactly when memory_gb >= 16 and
\* cpu_count >= 8, LOW exactly when it is not HIGH and memory_gb < 8 or
\* cpu_count < 4, BALANCED otherwise, and never CUSTOM; (16, 8) is HIGH,
\* (4, 2) is LOW and (12, 6) is BALANCED.
C14_AutoDetect ==
    LET memory_gb == pm_auto.system_info.memory_gb
        cpu_count == pm_auto.system_info.cpu_count
        high == memory_gb >= 160 /\ cpu_count >= 8
        low == ~high /\ (memory_gb < 80 \/ cpu_count < 4)
    IN  /\ pm_auto.mode = HIGH <=> high
        /\ pm_auto.mode = LOW <=> low
        /\ pm_auto.mode = BALANCED <=> (~high /\ ~low)
        /\ pm_auto.mode # CUSTOM
        /\ (memory_gb = 160 /\ cpu_count = 8) => pm_auto.mode = HIGH
        /\ (memory_gb = 40 /\ cpu_count = 2) => pm_auto.mode = LOW
        /\ (memory_gb = 120 /\ cpu_count = 6) => pm_auto.mode = BALANCED

C14_Witness ==
    /\ pm_auto.system_info = [memory_gb |-> 120, cpu_count |-> 6]
    /\ pm_auto.mode = BALANCED
    /\ performance_manager.system_info = pm_auto.system_info
    /\ performance_manager.current_mode = HIGH

\* the 16 keys of the settings table of section 4.2
SettingKeys ==
    {"ros2_update_interval", "metrics_update_interval", "history_update_interval",
     "chart_update_interval", "max_threads", "max_concurrent_threads",
     "cache_timeout", "system_metrics_cache", "topic_check_interval",
     "chart_buffer_size", "chart_auto_pause", "history_max_entries",
     "enable_profiler", "enable_advanced_features", "lazy_load_widgets",
     "process_priority"}

\* the literal values section 4.2 lists for HIGH, BALANCED and LOW
Section42(mode) ==
    [ros2_update_interval |->
         IF mode = HIGH THEN 1000 ELSE IF mode = BALANCED THEN 3000 ELSE 5000,
     metrics_update_interval |->
         IF mode = HIGH THEN 250 ELSE IF mode = BALANCED THEN 500 ELSE 1000,
     history_update_interval |->
         IF mode = HIGH THEN 5000 ELSE IF mode = BALANCED THEN 15000 ELSE 30000,
     chart_update_interval |->
         IF mode = HIGH THEN 500 ELSE IF mode = BALANCED THEN 1000 ELSE 2000,
     max_threads |-> IF mode = HIGH THEN 6 ELSE IF mode = BALANCED THEN 3 ELSE 2,
     max_concurrent_threads |->
         IF mode = HIGH THEN 4 ELSE IF mode = BALANCED THEN 2 ELSE 1,
     cache_timeout |-> IF mode = HIGH THEN 1 ELSE IF mode = BALANCED THEN 3 ELSE 5,
     system_metrics_cache |->
         IF mode = HIGH THEN [n |-> 1, d |-> 2]
         ELSE IF mode = BALANCED THEN [n |-> 1, d |-> 1] ELSE [n |-> 2, d |-> 1],
     topic_check_interval |->
         IF mode = HIGH THEN 1 ELSE IF mode = BALANCED THEN 3 ELSE 5,
     chart_buffer_size |->
         IF mode = HIGH THEN 120 ELSE IF mode = BALANCED THEN 60 ELSE 30,
     chart_auto_pause |-> mode # HIGH,
     history_max_entries |->
         IF mode = HIGH THEN 1000 ELSE IF mode = BALANCED THEN 500 ELSE 200,
     enable_profiler |-> mode # LOW,
     enable_advanced_features |-> TRUE,
     lazy_load_widgets |-> mode # HIGH,
     process_priority |-> IF mode = LOW THEN "below_normal" ELSE "normal"]

----------------------------------------------------------------------------
\* the domains range(start, end + 1) sweeps, in order
Swept(start_domain, end_domain) ==
    [k \in 1..(IF end_domain >= start_domain THEN end_domain - start_domain + 1 ELSE 0)
        |-> start_domain + k - 1]

\* C16: for every start and end, an empty range and domains whose probe
\* fails or times out included, scan_domains(start, end) leaves
\* current_domain equal to its value right before the call, however many
\* domains were probed in between.
C16_DomainRestored ==
    nd_last.op = "scan_domains" =>
        /\ network_discovery.current_domain = nd_last.before
        /\ [k \in 1..Len(nd_last.results) |-> nd_last.results[k][1]]
               = Swept(nd_last.start, nd_last.end)

C16_Witness ==
    /\ nd_last.op = "scan_domains"
    /\ nd_last.start = 0 /\ nd_last.end = 3
    /\ nd_last.before = 1
    /\ network_discovery.current_domain = 1
    /\ Len(nd_last.results) = 4
    /\ nd_last.results[3] = <<2, 0>>
    /\ nd_last.results[4] = <<3, 1>>

----------------------------------------------------------------------------
\* the category section 4.9 gives a topic: every test, the '/tf' one
\* included, is a substring test on the lower-cased name
LoweredCategory(topic) ==
    IF Category(topic) = "other" /\ TfTestLowered(topic) THEN "tf" ELSE Category(topic)

\* C17 as stated: get_robot_sensors puts every topic of the robot in exactly
\* one category, chosen by substring match on the lower-cased topic name in
\* the order cameras, lidars, imu, gps, odometry, joint_states, tf, other,
\* and no key of the result has an empty list; /front/camera/image_raw,
\* /imu/data, /scan, /tf give cameras, imu, lidars and tf with no 'other'.
C17_Original ==
    nd_sensors.hostname = "robot1" =>
        LET topics == discovered_robots["robot1"]
            result == nd_sensors.result
        IN  /\ \A c \in DOMAIN result :
                   /\ result[c] # <<>>
                   /\ result[c] = SelectSeq(topics, LAMBDA t : LoweredCategory(t) = c)
            /\ \A k \in 1..Len(topics) : LoweredCategory(topics[k]) \in DOMAIN result
            /\ topics = <<TopicCameraImage, TopicImu, TopicScan, TopicTf>>
                   => DOMAIN result = {"cameras", "imu", "lidars", "tf"}

----------------------------------------------------------------------------
\* the calls that returned a package
Packaged(k) == k \in 1..Len(ml_calls) /\ ~ml_calls[k].raised

\* C18 as stated: packaging the same bag path twice produces two distinct
\* package directories, each holding raw/, metadata.json, schema.json and the
\* .tar.gz archive; the second call never reuses or overwrites the package
\* directory of the first.
C18_Original ==
    \A i, j \in 1..Len(ml_calls) :
        (i < j /\ Packaged(i) /\ Packaged(j) /\ ml_calls[i].bag_path = ml_calls[j].bag_path)
            => /\ ml_calls[i].package_dir # ml_calls[j].package_dir
               /\ ml_calls[i].package_dir \in DOMAIN ml_datasets
               /\ ml_calls[j].package_dir \in DOMAIN ml_datasets
               /\ ml_datasets[ml_calls[i].package_dir].metadata.packaged_at
                      = ml_calls[i].packaged_at
               /\ ml_datasets[ml_calls[j].package_dir].archive
                      = ml_datasets[ml_calls[j].package_dir].raw

\* C19: after a performance-mode change is applied, the window that decides
\* cache hits equals the new mode's cache_timeout and the worker pool's
\* thread limit equals the new mode's max_threads.
C19_Original ==
    sh_applied # NoMode =>
        /\ FreshnessWindow(async_ros2)
               = get_mode_settings(performance_manager, sh_applied).cache_timeout
        /\ ThreadLimit(async_ros2)
               = get_mode_settings(performance_manager, sh_applied).max_threads

\* C20: in every reachable state of the shell the ROS2-info timer's interval
\* is at least 3000 ms, the metrics timer's at least 1000 ms and the history
\* timer's at least 5000 ms.
C20_Original ==
    /\ ros2_timer >= 3000
    /\ metrics_timer >= 1000
    /\ history_timer >= 5000

\* C21: whenever no recording is active (at startup, after a stop, after a
\* mode change while idle) the metrics timer's interval is twice the
\* configured metrics_update_interval, and whenever a recording is active it
\* equals the configured metrics_update_interval.
C21_Original ==
    metrics_timer = IF mw_is_recording
                    THEN perf_settings.metrics_update_interval
                    ELSE 2 * perf_settings.metrics_update_interval

\* a worker whose query has not finished
Outstanding == {i \in DOMAIN workers : workers[i].pc \in {"queued", "running", "stored"}}

ErrorSignals == {k \in 1..Len(ui_queue) : ui_queue[k].kind = "error"}

\* C23: when the Facade call of a task raises, the error reaches
\* _handle_error and never the caller's callback, the cache entry and its
\* timestamp are left as they were, and the pool's thread is released so
\* that later requests run.
C23_ErrorContained ==
    /\ [](/\ \A k \in ErrorSignals :
                /\ ~workers[ui_queue[k].task].stored
                /\ workers[ui_queue[k].task].pc = "done"
                /\ \A j \in 1..Len(ui_queue) : ui_queue[j].task = ui_queue[k].task => j = k
          /\ cb_fired.kind = "error" => ~cb_fired.stored)
    /\ [][/\ Len(ui_queue') > Len(ui_queue) /\ ui_queue'[Len(ui_queue')].kind = "error"
               => cache' = cache /\ cache_timestamps' = cache_timestamps
          /\ (ui_queue # <<>> /\ ui_queue' = Tail(ui_queue) /\ Head(ui_queue).kind = "error")
               => /\ cache' = cache /\ cache_timestamps' = cache_timestamps
                  /\ cb_fired'.kind = "error"
          /\ (cb_fired.kind = "error" /\ as_calls' = as_calls + 1 /\ ~as_last'.hit)
               => \/ workers'[as_calls'].pc = "running"
                  \/ Cardinality(ActiveThreads(workers)) >= max_threads]_vars

\* an error was handled, nothing was cached for it, and the query of another
\* request has run and written the cache
C23_Witness ==
    /\ cb_fired = Fired("error", FALSE)
    /\ as_calls = 2
    /\ DOMAIN workers = {2}
    /\ workers[2].pc = "stored"
    /\ DOMAIN cache = {workers[2].key}

C25_Original ==
    [][(rec_req' # rec_req /\ rec_req'.call = "start" /\ rec_req'.reached_facade)
          => StartTopics(selected_topics)
                 = IF selected_topics THEN ExplicitSelection ELSE AllTopics]_vars

\* one refresh of the rate table: what the claim says of every tracked topic
\* but the topics that never reported a positive rate
RefreshRules ==
    rt_refreshes' = rt_refreshes + 1 =>
        \A t \in DOMAIN selected_topics_data :
            /\ (t \in DOMAIN rt_last' /\ selected_topics_data[t].rate > 0
                  /\ rt_last'[t] = 0)
                 => /\ selected_topics_data'[t].stalled
                    /\ selected_topics_data'[t].stalled_count
                           = selected_topics_data[t].stalled_count + 1
            /\ t \notin DOMAIN rt_last'
                 => /\ selected_topics_data'[t].rate = 0
                    /\ selected_topics_data'[t].stalled
            /\ (t \in DOMAIN rt_last' /\ rt_last'[t] > 0)
                 => ~selected_topics_data'[t].stalled

\* what the table shows: stalled implies rate = 0, OK only with a positive
\* rate and no stall
TableRules ==
    \A t \in DOMAIN selected_topics_data :
        /\ selected_topics_data[t].stalled => selected_topics_data[t].rate = 0
        /\ Status(selected_topics_data[t]) = "OK"
             => selected_topics_data[t].rate > 0 /\ ~selected_topics_data[t].stalled

----------------------------------------------------------------------------
\* what one stop of a recording adds to the upload queue
Enqueued == Len(upload_queue') - Len(upload_queue)

Stopped == nu_last'.stops = nu_last.stops + 1

\* C27 as stated: a stop enqueues the capture exactly when auto-upload is
\* enabled and a network manager exists, and then once.
C27_Original ==
    [][Stopped =>
          Enqueued = IF auto_upload_check /\ network_manager THEN 1 ELSE 0]_vars

\* C27, amended: a stop enqueues the finished capture exactly when auto-upload
\* is enabled, a network manager exists and the Facade's current bag path
\* exists on disk; it enqueues it once, at the end of the queue, and nothing
\* but a stop enqueues.
C27_AutoUpload ==
    [][/\ Stopped =>
            /\ Enqueued = IF auto_upload_check /\ network_manager /\ bag_on_disk
                          THEN 1 ELSE 0
            /\ Enqueued = 1 => upload_queue' = Append(upload_queue, recording_process)
       /\ ~Stopped => upload_queue' = upload_queue]_vars

\* a stop that enqueued its capture, and an earlier or later one that did not
C27_Witness ==
    /\ nu_last.stops >= 2
    /\ nu_last.manager /\ nu_last.auto /\ nu_last.on_disk
    /\ Len(upload_queue) = 1
    /\ upload_queue[1] = next_pid - 1

----------------------------------------------------------------------------
Recording == recording_process # NoProcess

CloseEvent == cl_last'.closes = cl_last.closes + 1

InFlight == {i \in DOMAIN workers : workers[i].pc # "done"}

\* C28: a close while a recording is active is accepted only after the
\* operator's Yes; a declined close changes nothing but the record of the
\* question; and once the close is accepted the Facade records nothing, the
\* network manager, if there is one, has been stopped, and no task of the
\* pool is queued or running.
C28_Close ==
    /\ [](window = "closed" =>
            /\ cl_last.was_recording => cl_last.reply = "Yes"
            /\ ~Recording
            /\ network_manager => nm_stopped
            /\ InFlight = {})
    /\ [](Recording => mw_is_recording)
    /\ [][/\ CloseEvent /\ Recording => cl_last'.reply \in Replies
          /\ CloseEvent /\ cl_last'.reply = "No" =>
                /\ window' = "open"
                /\ UNCHANGED <<recVars, asVars, nm_stopped, nuKept, stopVars>>
          /\ window # "closed" /\ window' = "closed" => window = "draining"]_vars

\* a confirmed close during a recording, with a network manager and with
\* tasks that were in flight when the operator answered, has been accepted
C28_Witness ==
    /\ window = "closed"
    /\ cl_last.was_recording
    /\ cl_last.reply = "Yes"
    /\ cl_last.closes = 2
    /\ network_manager
    /\ workers # EmptyMap

----------------------------------------------------------------------------
\* a finalize request has been answered, and not with success
FinalizeFailed ==
    /\ up_count' = up_count + 1
    /\ up_req'.op = "finalize"
    /\ up_resp'.code # 200

\* C29 as stated: a finalize that fails puts no file into the
\* completed-uploads directory and writes to none that is there.
C29_Original ==
    [][FinalizeFailed =>
          \A f \in DOMAIN completed' :
              f \in DOMAIN completed /\ completed'[f] = completed[f]]_vars

\* C30 as stated: a file completed by a successful finalize (its sidecar is
\* there) stays present and unchanged when a later session of the same
\* filename fails its checksum verification.
C30_Original ==
    [][(/\ FinalizeFailed
        /\ up_resp' = Resp(400, "Checksum mismatch")
        /\ FinSession.filename \in DOMAIN completed
        /\ FinSession.filename \in DOMAIN sidecars)
       => (/\ FinSession.filename \in DOMAIN completed'
           /\ completed'[FinSession.filename] = completed[FinSession.filename])]_vars

----------------------------------------------------------------------------
\* C31 as stated: a completion callback that issues a request of its own
\* always returns: the UI thread never waits for the cache lock it holds.
C31_Original == ui_pc # "deadlock"

----------------------------------------------------------------------------
\* the requests of the latest check_triggers call, after the one before them
RequestRun == <<last_cycle.prev_request>> \o last_cycle.events

\* C32: auto_start_requested and auto_stop_requested alternate, beginning
\* with auto_start_requested: every request the manager raises follows a
\* request of the other kind, or nothing in the case of the first start.
C32_Alternation ==
    /\ \A k \in 1..(Len(RequestRun) - 1) :
          /\ RequestRun[k + 1] = "auto_start_requested" =>
                RequestRun[k] \in {"none", "auto_stop_requested"}
          /\ RequestRun[k + 1] = "auto_stop_requested" =>
                RequestRun[k] = "auto_start_requested"
    /\ recording_active <=> LastRequest(last_cycle) = "auto_start_requested"

\* a second auto-start, raised after an auto-stop
C32_Witness ==
    /\ last_cycle.prev_request = "auto_stop_requested"
    /\ last_cycle.events = <<"auto_start_requested">>
    /\ recording_active

----------------------------------------------------------------------------
\* the latest call was a check of the enabled trigger
Checked == tk_hist.last.op = "check" /\ tk_hist.last.enabled

\* C33 as stated: for every kind of trigger, the first check after a reset
\* (or after the construction) in which the trigger's condition holds emits
\* trigger_activated.
C33_Original ==
    (Checked /\ tk_hist.last.cond /\ tk_hist.last.fresh) =>
        tk_hist.last.signal = "trigger_activated"

----------------------------------------------------------------------------
\* C34: an enabled TopicDisappearsTrigger does not fire (and returns False)
\* in a check that sees the topic; when it fires, the topic is absent from
\* that check and from every check since the start of a span of at least the
\* grace period, the span starting at the latest check that saw the topic
\* (at the first check when none did).
C34_GracePeriod ==
    (tk_self.kind = TopicDisappears /\ Checked) =>
        /\ tk_hist.last.topic =>
              ~tk_hist.last.ret /\ tk_hist.last.signal = "none"
        /\ tk_hist.last.ret =>
              ~tk_hist.last.topic /\ tk_hist.last.span >= grace_period
        /\ tk_hist.last.signal = "trigger_activated" => tk_hist.last.ret

\* the trigger fires on a topic that was seen and then stayed away
C34_Witness ==
    /\ tk_self.kind = TopicDisappears
    /\ Checked
    /\ tk_hist.last.signal = "trigger_activated"
    /\ tk_hist.last_present # Never
    /\ tk_hist.last_present > tk_hist.first_check
    /\ tk_hist.last.span = grace_period

----------------------------------------------------------------------------
\* the last n elements of a sequence
LastN(seq, n) == IF Len(seq) <= n THEN seq ELSE SubSeq(seq, Len(seq) - n + 1, Len(seq))

\* C35: with pre-buffering enabled every monitoring cycle appends one
\* snapshot, whatever the triggers and the recording state; the pre-buffer
\* holds at most 100 snapshots, and they are the most recent ones of all
\* that were due, in arrival order.
C35_PreBuffer ==
    /\ [](/\ Len(pre_buffer_data) <= pre_buffer_maxlen
          /\ pre_buffer_data = LastN(pb_log, pre_buffer_maxlen))
    /\ [][(pb_cycles' = pb_cycles + 1 /\ monitoring_enabled /\ pre_buffer_enabled) =>
             /\ pre_buffer_data' # <<>>
             /\ pre_buffer_data'[Len(pre_buffer_data')].timestamp = pb_cycles'
             /\ Len(pre_buffer_data) < pre_buffer_maxlen =>
                   Len(pre_buffer_data') = Len(pre_buffer_data) + 1]_vars

\* a full pre-buffer that has dropped its oldest snapshots, filled by cycles
\* run while recording and while not
C35_Witness ==
    /\ Len(pre_buffer_data) = pre_buffer_maxlen
    /\ Len(pb_log) > pre_buffer_maxlen
    /\ pre_buffer_data[1].timestamp > pb_log[1].timestamp
    /\ recording_active
    /\ last_cycle.prev_request = "auto_stop_requested"

----------------------------------------------------------------------------
(***************************************************************************)
(* Topic echo and bag playback: properties                                 *)
(***************************************************************************)
\* the signals a reader thread emitted in this step, oldest first
Emitted == SubSeq(echo_events', Len(echo_events) + 1, Len(echo_events'))

\* reader r took a line from its child's output in this step
ReadsLine(r) == echo_readers'[r].lines = echo_readers[r].lines + 1

\* the UI thread runs stop_echo in this step
StopEchoRuns ==
    \/ \E delay \in ExitDelays : EchoStopButton(delay)
    \/ /\ echo_events # <<>>
       /\ Head(echo_events).kind = "finished"
       /\ \E delay \in ExitDelays : EchoDeliver(delay)

C37_Original ==
    (echo_last.cause = "finished" /\ echo_last.was_echoing)
        => echo_last.from = echo_last.session

\* C38: stop_echo and stop_playback leave is_echoing / is_playing false and
\* the process handle cleared whatever the child does; a child they find is
\* first asked to terminate, and it is killed exactly when it was still
\* running and has not exited within the grace period, 2 s for the echo
\* and 5 s for the playback.
C38_Stop ==
    /\ [][StopEchoRuns =>
            LET stop == echo_last'
                running == echo_process # NoProcess /\ echo_procs[echo_process] = "running"
            IN  /\ ~is_echoing'
                /\ echo_process' = NoProcess
                /\ stop.stopped = echo_process
                /\ stop.terminated = (echo_process # NoProcess)
                /\ stop.killed => stop.terminated
                /\ stop.killed = (running /\ stop.delay >= 2)]_vars
    /\ [][(\E delay \in PlaybackDelays : PlaybackStopButton(delay)) =>
            LET stop == pl_last' IN
                /\ ~is_playing'
                /\ playback_process' = NoProcess
                /\ stop.stopped = playback_process
                /\ stop.terminated = (playback_process # NoProcess)
                /\ stop.killed => stop.terminated
                /\ stop.killed = (playback_process # NoProcess /\ stop.delay >= 5)]_vars

\* an echo child that took 3 s was killed, a playback child that took 3 s
\* was not, and both widgets are stopped with their handles cleared
C38_Witness ==
    /\ echo_last.terminated /\ echo_last.killed /\ echo_last.delay = 3
    /\ pl_last.terminated /\ ~pl_last.killed /\ pl_last.delay = 3
    /\ ~is_echoing /\ echo_process = NoProcess
    /\ ~is_playing /\ playback_process = NoProcess

----------------------------------------------------------------------------
(***************************************************************************)
(* The settings dialog and the shell's handler: properties                 *)
(***************************************************************************)
\* C39: an Apply or OK of the settings dialog runs the shell's mode-change
\* handler exactly once when the selected mode differs from the current one
\* and not at all when it is the current one.
C39_Original ==
    [][(\E selected_mode \in DialogModes : apply_settings(selected_mode)) =>
          sh_changes' - sh_changes =
              IF performance_manager'.current_mode # performance_manager.current_mode
              THEN 1 ELSE 0]_vars

----------------------------------------------------------------------------
(***************************************************************************)
(* The isolation harness: properties                                       *)
(***************************************************************************)
\* C40: the harness exits with status 0 only if the recording started, the
\* process of the second reading exists and is running, that reading's
\* process id is the one of the first reading, and the health-check counter
\* of the second reading is greater than that of the first; whatever else
\* it observes, it exits with status 1.
C40_Original ==
    (hv_run.done /\ hv_run.exit = 0) =>
        /\ hv_run.started
        /\ hv_run.inspection = "running"
        /\ hv_run.health_before.ok /\ hv_run.health_after.ok
        /\ hv_run.health_after.pid = hv_run.health_before.pid
        /\ hv_run.health_after.health_checks > hv_run.health_before.health_checks

=========================================================================
